---------------------------- MODULE Spec2Model ----------------------------
(***************************************************************************)
(* Model of bot-relatorio's tolerant extraction of an analysis from the    *)
(* raw text of a generative model (src/ia_analyzer.py, class AnaliseIA).   *)
(*                                                                         *)
(* A text is a sequence of one-character strings.  Python values are       *)
(* records [t, v]: t is the Python type ("str", "null", "num", "bool",     *)
(* "obj", "arr") and v the characters of the value (the decoded characters *)
(* of a str, the literal of a number or a boolean, the source span of an   *)
(* object or array, <<>> for None).                                        *)
(***************************************************************************)
EXTENDS Integers, Sequences, FiniteSets, TLC

(***************************************************************************)
(* Characters                                                              *)
(***************************************************************************)
LBRACE == "{"
RBRACE == "}"
LBRACK == "["
RBRACK == "]"
QUOTE == "\""
BACKSLASH == "\\"
COMMA == ","
COLON == ":"
DASH == "-"
UNDERSCORE == "_"
QMARK == "?"
APOSTROPHE == "'"
\* the grave accent of a code fence; the atom stands for the one character,
\* which the lexer of this language does not accept inside a string
BACKTICK == "<grave>"
SPACE == " "
NEWLINE == "\n"

\* str.strip(), the regex class \s and the JSON scanner agree on these.
Whitespace == {" ", "\n", "\t", "\r"}

IsSpace(ch) == ch \in Whitespace

LowerChars ==
    << "a", "b", "c", "d", "e", "f", "g", "h", "i", "j", "k", "l", "m",
       "n", "o", "p", "q", "r", "s", "t", "u", "v", "w", "x", "y", "z" >>

UpperChars ==
    << "A", "B", "C", "D", "E", "F", "G", "H", "I", "J", "K", "L", "M",
       "N", "O", "P", "Q", "R", "S", "T", "U", "V", "W", "X", "Y", "Z" >>

Digits == {"0", "1", "2", "3", "4", "5", "6", "7", "8", "9"}

HexDigits ==
    Digits \cup {"a", "b", "c", "d", "e", "f", "A", "B", "C", "D", "E", "F"}

\* str.upper() on one character
UpperCh(ch) ==
    IF \E k \in 1..Len(LowerChars) : LowerChars[k] = ch
    THEN UpperChars[CHOOSE k \in 1..Len(LowerChars) : LowerChars[k] = ch]
    ELSE ch

\* str.lower() on one character
LowerCh(ch) ==
    IF \E k \in 1..Len(UpperChars) : UpperChars[k] = ch
    THEN LowerChars[CHOOSE k \in 1..Len(UpperChars) : UpperChars[k] = ch]
    ELSE ch

\* str.upper()
Upper(s) == [k \in 1..Len(s) |-> UpperCh(s[k])]

\* str.lower()
Lower(s) == [k \in 1..Len(s) |-> LowerCh(s[k])]

(***************************************************************************)
(* Python string methods                                                   *)
(***************************************************************************)
\* s[i-1:] of Python, with i a 1-based position
From(s, i) == SubSeq(s, i, Len(s))

\* s.startswith(p, i-1)
StartsWithAt(s, p, i) ==
    /\ i >= 1
    /\ i + Len(p) - 1 <= Len(s)
    /\ \A k \in 1..Len(p) : s[i + k - 1] = p[k]

\* s.startswith(p)
StartsWith(s, p) == StartsWithAt(s, p, 1)

\* s.endswith(p)
EndsWith(s, p) == Len(p) <= Len(s) /\ StartsWithAt(s, p, Len(s) - Len(p) + 1)

\* s.strip()
Strip(s) ==
    LET keep == {k \in 1..Len(s) : ~IsSpace(s[k])}
    IN  IF keep = {} THEN <<>>
        ELSE SubSeq(s, CHOOSE k \in keep : \A j \in keep : k <= j,
                       CHOOSE k \in keep : \A j \in keep : k >= j)

\* s.find(p) as a 1-based position, 0 when p does not occur (-1 in Python)
Find(s, p) ==
    LET hits == {k \in 1..Len(s) : StartsWithAt(s, p, k)}
    IN  IF hits = {} THEN 0 ELSE CHOOSE k \in hits : \A j \in hits : k <= j

\* one step of s.replace(old, new) at position st.i: an occurrence of old is
\* replaced and skipped, any other character is copied
ReplaceStep(s, old, new, st) ==
    IF StartsWithAt(s, old, st.i)
    THEN [i |-> st.i + Len(old), out |-> st.out \o new]
    ELSE [i |-> st.i + 1, out |-> Append(st.out, s[st.i])]

RECURSIVE ReplaceIter(_, _, _, _, _)
\* up to n steps of the replacement, stopping at the end of s
ReplaceIter(s, old, new, st, n) ==
    IF n = 0 \/ st.i > Len(s) THEN st
    ELSE IF n = 1 THEN ReplaceStep(s, old, new, st)
    ELSE LET left == ReplaceIter(s, old, new, st, n \div 2)
         IN  IF left.i > Len(s) THEN left
             ELSE ReplaceIter(s, old, new, left, n - (n \div 2))

\* s.replace(old, new), old not empty: leftmost occurrences, not overlapping
Replace(s, old, new) == ReplaceIter(s, old, new, [i |-> 1, out |-> <<>>], Len(s)).out

\* s[:n]
Prefix(s, n) == IF Len(s) <= n THEN s ELSE SubSeq(s, 1, n)

(***************************************************************************)
(* Python values                                                           *)
(***************************************************************************)
None == [t |-> "null", v |-> <<>>]

Str(s) == [t |-> "str", v |-> s]

IsStr(x) == x.t = "str"

\* bool(x): None, "", 0, false, {} and [] are false
Truthy(x) ==
    CASE x.t = "null" -> FALSE
      [] x.t = "str" -> x.v # <<>>
      [] x.t = "bool" -> x.v = <<"t", "r", "u", "e">>
      [] x.t = "num" ->
            LET mant == IF \E k \in 1..Len(x.v) : x.v[k] \in {"e", "E"}
                        THEN SubSeq(x.v, 1, (CHOOSE k \in 1..Len(x.v) :
                                 x.v[k] \in {"e", "E"}) - 1)
                        ELSE x.v
            IN  \E k \in 1..Len(mant) : mant[k] \in Digits \ {"0"}
                    \/ mant[k] \in {"N", "I"}
      [] OTHER -> \E k \in 2..(Len(x.v) - 1) : ~IsSpace(x.v[k])

(***************************************************************************)
(* json.loads, as the decoder of the standard library reads a text         *)
(***************************************************************************)
\* the characters a JSON string may not hold unescaped (strict mode)
ControlChars == {"\n", "\t", "\r", "\f"}

\* json.decoder.BACKSLASH: the character an escape stands for
Unescape(esc) ==
    CASE esc = "n" -> "\n"
      [] esc = "t" -> "\t"
      [] esc = "r" -> "\r"
      [] esc = "f" -> "\f"
      [] esc = "b" -> "<bs>"
      [] OTHER -> esc

Escapes == {"\"", "\\", "/", "b", "f", "n", "r", "t"}

\* json.decoder.WHITESPACE.match(s, i).end()
SkipWs(s, i) ==
    CHOOSE j \in i..(Len(s) + 1) :
        /\ j = Len(s) + 1 \/ ~IsSpace(s[j])
        /\ \A k \in i..(j - 1) : IsSpace(s[k])

\* the position after the run of digits that starts at i
DigitsEnd(s, i) ==
    CHOOSE j \in i..(Len(s) + 1) :
        /\ j = Len(s) + 1 \/ s[j] \notin Digits
        /\ \A k \in i..(j - 1) : s[k] \in Digits

\* json.scanner.NUMBER_RE.match(s, i): the position after the number, 0 for
\* no match.  (-?(?:0|[1-9]\d*))(\.\d+)?([eE][-+]?\d+)?
NumberEnd(s, i) ==
    LET j == IF i <= Len(s) /\ s[i] = "-" THEN i + 1 ELSE i
        intEnd == IF j > Len(s) \/ s[j] \notin Digits THEN 0
                  ELSE IF s[j] = "0" THEN j + 1 ELSE DigitsEnd(s, j)
        fracEnd == IF intEnd # 0 /\ intEnd + 1 <= Len(s) /\ s[intEnd] = "."
                      /\ s[intEnd + 1] \in Digits
                   THEN DigitsEnd(s, intEnd + 1) ELSE intEnd
        m == IF fracEnd # 0 /\ fracEnd + 1 <= Len(s) /\ s[fracEnd] \in {"e", "E"}
             THEN (IF s[fracEnd + 1] \in {"+", "-"} THEN fracEnd + 2 ELSE fracEnd + 1)
             ELSE 0
    IN  IF m # 0 /\ m <= Len(s) /\ s[m] \in Digits THEN DigitsEnd(s, m) ELSE fracEnd

ScanFail == [ok |-> FALSE, val |-> None, fim |-> 0]

RECURSIVE ScanString(_, _, _)
\* json.decoder.scanstring(s, i - 1, strict=True), i the position after the
\* opening quote and acc the characters decoded so far
ScanString(s, i, acc) ==
    LET end == Len(s)
    IN
    IF i > end THEN ScanFail
    ELSE IF s[i] = QUOTE THEN [ok |-> TRUE, val |-> Str(acc), fim |-> i + 1]
    ELSE IF s[i] = BACKSLASH THEN
        IF i + 1 > Len(s) THEN ScanFail
        ELSE IF s[i + 1] = "u" THEN
            IF i + 5 <= Len(s) /\ \A k \in (i + 2)..(i + 5) : s[k] \in HexDigits
            THEN ScanString(s, i + 6, acc \o <<"<u>">> \o SubSeq(s, i + 2, i + 5))
            ELSE ScanFail
        ELSE IF s[i + 1] \in Escapes
             THEN ScanString(s, i + 2, Append(acc, Unescape(s[i + 1])))
             ELSE ScanFail
    ELSE IF s[i] \in ControlChars THEN ScanFail
    ELSE ScanString(s, i + 1, Append(acc, s[i]))

Literals ==
    << <<"null", <<"n", "u", "l", "l">> >>,
       <<"bool", <<"t", "r", "u", "e">> >>,
       <<"bool", <<"f", "a", "l", "s", "e">> >>,
       <<"num", <<"N", "a", "N">> >>,
       <<"num", <<"I", "n", "f", "i", "n", "i", "t", "y">> >>,
       <<"num", <<"-", "I", "n", "f", "i", "n", "i", "t", "y">> >> >>

RECURSIVE ScanValue(_, _)
RECURSIVE ScanObject(_, _, _)
RECURSIVE ScanArray(_, _, _)

\* the value a container that ends before fim stands for
Container(s, i, r, tipo) ==
    IF r.ok THEN [ok |-> TRUE, fim |-> r.fim,
                  val |-> [t |-> tipo, v |-> SubSeq(s, i, r.fim - 1)]]
    ELSE ScanFail

\* a number that ends before fim
Number(s, i, fim) ==
    [ok |-> TRUE, fim |-> fim, val |-> [t |-> "num", v |-> SubSeq(s, i, fim - 1)]]

\* the k-th literal
Literal(i, k) ==
    [ok |-> TRUE, fim |-> i + Len(Literals[k][2]),
     val |-> [t |-> Literals[k][1],
              v |-> IF Literals[k][1] = "null" THEN <<>> ELSE Literals[k][2]]]

\* json.scanner.scan_once(s, i - 1): [ok, val, fim], fim the position after
\* the value; pares of an object are kept by ScanObject
ScanValue(s, i) ==
    CASE i > Len(s) -> ScanFail
      [] i <= Len(s) /\ s[i] = QUOTE -> ScanString(s, i + 1, <<>>)
      [] i <= Len(s) /\ s[i] = LBRACE -> Container(s, i, ScanObject(s, i + 1, <<>>), "obj")
      [] i <= Len(s) /\ s[i] = LBRACK -> Container(s, i, ScanArray(s, i + 1, TRUE), "arr")
      [] OTHER ->
            IF NumberEnd(s, i) # 0 THEN Number(s, i, NumberEnd(s, i))
            ELSE IF \E k \in 1..Len(Literals) : StartsWithAt(s, Literals[k][2], i)
            THEN Literal(i, CHOOSE k \in 1..Len(Literals) :
                                StartsWithAt(s, Literals[k][2], i))
            ELSE ScanFail

ScanObjectFail == [ok |-> FALSE, pares |-> <<>>, fim |-> 0]

\* after a pair: d is the position of the next character that is not white
\* space, novo the pairs read so far
ObjectNext(s, d, novo) ==
    IF d > Len(s) THEN ScanObjectFail
    ELSE IF s[d] = RBRACE THEN [ok |-> TRUE, pares |-> novo, fim |-> d + 1]
    ELSE IF s[d] = COMMA /\ SkipWs(s, d + 1) <= Len(s) /\ s[SkipWs(s, d + 1)] = QUOTE
    THEN ScanObject(s, d + 1, novo)
    ELSE ScanObjectFail

\* after the value of a pair
ObjectValue(s, key, val, pares) ==
    IF val.ok
    THEN ObjectNext(s, SkipWs(s, val.fim), Append(pares, [k |-> key.val.v, val |-> val.val]))
    ELSE ScanObjectFail

\* after a key: c is the position of the next character that is not white space
ObjectColon(s, key, c, pares) ==
    IF c <= Len(s) /\ s[c] = COLON
    THEN ObjectValue(s, key, ScanValue(s, SkipWs(s, c + 1)), pares)
    ELSE ScanObjectFail

\* the key that starts at the quote before i
ObjectKey(s, key, pares) ==
    IF key.ok THEN ObjectColon(s, key, SkipWs(s, key.fim), pares) ELSE ScanObjectFail

\* j is the position of the first character of a pair, or of the closing brace
ObjectPair(s, j, pares) ==
    IF j > Len(s) THEN ScanObjectFail
    ELSE IF s[j] = RBRACE /\ pares = <<>>
    THEN [ok |-> TRUE, pares |-> <<>>, fim |-> j + 1]
    ELSE IF s[j] # QUOTE THEN ScanObjectFail
    ELSE ObjectKey(s, ScanString(s, j + 1, <<>>), pares)

\* json.decoder.JSONObject from the position i after the opening brace or
\* after a comma; pares: the pairs read so far (a closing brace is accepted
\* in place of a key only when there is none)
ScanObject(s, i, pares) == ObjectPair(s, SkipWs(s, i), pares)

\* after an element: d is the position of the next character that is not
\* white space
ArrayNext(s, d) ==
    IF d > Len(s) THEN ScanFail
    ELSE IF s[d] = RBRACK THEN [ok |-> TRUE, val |-> None, fim |-> d + 1]
    ELSE IF s[d] = COMMA THEN ScanArray(s, d + 1, FALSE)
    ELSE ScanFail

\* after the value of an element
ArrayValue(s, val) ==
    IF val.ok THEN ArrayNext(s, SkipWs(s, val.fim)) ELSE ScanFail

\* j is the position of the first character of an element, or of the
\* closing bracket
ArrayElement(s, j, primeiro) ==
    IF j > Len(s) THEN ScanFail
    ELSE IF s[j] = RBRACK /\ primeiro
    THEN [ok |-> TRUE, val |-> None, fim |-> j + 1]
    ELSE ArrayValue(s, ScanValue(s, j))

\* json.decoder.JSONArray from the position i after the opening bracket
\* (primeiro) or after a comma
ScanArray(s, i, primeiro) == ArrayElement(s, SkipWs(s, i), primeiro)

\* json.loads(s) for a text whose first character is an opening brace:
\* [ok, pares]; ok = FALSE stands for json.JSONDecodeError
loads(s) ==
    LET i == SkipWs(s, 1)
        r == IF i <= Len(s) /\ s[i] = LBRACE THEN ScanObject(s, i + 1, <<>>)
             ELSE ScanObjectFail
    IN  IF r.ok /\ SkipWs(s, r.fim) = Len(s) + 1
        THEN [ok |-> TRUE, pares |-> r.pares]
        ELSE [ok |-> FALSE, pares |-> <<>>]

\* key in dados
HasKey(pares, key) == \E k \in 1..Len(pares) : pares[k].k = key

\* dados.get(key, default): the last pair of a repeated key wins
Get(pares, key, default) ==
    IF HasKey(pares, key)
    THEN pares[CHOOSE k \in 1..Len(pares) :
                  pares[k].k = key /\ \A j \in (k + 1)..Len(pares) : pares[j].k # key].val
    ELSE default

(***************************************************************************)
(* AnaliseIA: the fence cleaning at the head of _parse                     *)
(***************************************************************************)
FENCE == <<BACKTICK, BACKTICK, BACKTICK>>

JSON_TAG == <<"j", "s", "o", "n">>

\* re.sub of the pattern ^FENCE(?:json)? by "", flags=re.IGNORECASE
SubFenceInicial(texto) ==
    IF ~StartsWith(texto, FENCE) THEN texto
    ELSE IF StartsWithAt(Lower(Prefix(texto, 7)), JSON_TAG, 4) THEN From(texto, 8)
    ELSE From(texto, 4)

\* Texto without the replace of the fence markers that are not at the start
TextoSemReplace(raw) == Strip(SubFenceInicial(Strip(raw)))

\* Texto without the trims that follow the removal of the fence markers
TextoSemStrip(raw) == Replace(SubFenceInicial(Strip(raw)), FENCE, <<>>)

\* the text _parse hands to the locator: self.raw trimmed, without fences
Texto(raw) ==
    LET t1 == Strip(raw)
        t2 == Strip(SubFenceInicial(t1))
        t3 == Strip(Replace(t2, FENCE, <<>>))
        t4 == IF StartsWith(t3, FENCE \o JSON_TAG) THEN From(t3, 8) ELSE t3
        t5 == IF StartsWith(t4, FENCE) THEN From(t4, 4) ELSE t4
        t6 == IF EndsWith(t5, FENCE) THEN SubSeq(t5, 1, Len(t5) - 3) ELSE t5
    IN  Strip(t6)

(***************************************************************************)
(* AnaliseIA._extrair_json: the brace-balanced locator                     *)
(***************************************************************************)
\* the locals of the scan before the first iteration of the for loop, which
\* starts at inicio; achou: the loop returned the span that ends at i
ScanInit(inicio) ==
    [i |-> inicio, profundidade |-> 0, em_string |-> FALSE, escape |-> FALSE,
     achou |-> FALSE]

\* ScanBody without the escape flag: every quote ends the string
ScanBodySemEscape(st, ch) ==
    IF st.em_string THEN
        IF ch = QUOTE THEN [st EXCEPT !.em_string = FALSE] ELSE st
    ELSE IF ch = QUOTE THEN [st EXCEPT !.em_string = TRUE]
    ELSE IF ch = LBRACE THEN [st EXCEPT !.profundidade = @ + 1]
    ELSE IF ch = RBRACE THEN
        [st EXCEPT !.profundidade = @ - 1, !.achou = (st.profundidade - 1 = 0)]
    ELSE st

\* ScanBody without the count of the opening braces
ScanBodySemAbrir(st, ch) ==
    IF st.em_string THEN
        IF st.escape THEN [st EXCEPT !.escape = FALSE]
        ELSE IF ch = BACKSLASH THEN [st EXCEPT !.escape = TRUE]
        ELSE IF ch = QUOTE THEN [st EXCEPT !.em_string = FALSE]
        ELSE st
    ELSE IF ch = QUOTE THEN [st EXCEPT !.em_string = TRUE]
    ELSE IF ch = RBRACE THEN
        [st EXCEPT !.profundidade = @ - 1, !.achou = (st.profundidade - 1 = 0)]
    ELSE st

\* the body of the for loop on ch = texto[i], lines 173-191
ScanBody(st, ch) ==
    IF st.em_string THEN
        IF st.escape THEN [st EXCEPT !.escape = FALSE]
        ELSE IF ch = BACKSLASH THEN [st EXCEPT !.escape = TRUE]
        ELSE IF ch = QUOTE THEN [st EXCEPT !.em_string = FALSE]
        ELSE st
    ELSE IF ch = QUOTE THEN [st EXCEPT !.em_string = TRUE]
    ELSE IF ch = LBRACE THEN [st EXCEPT !.profundidade = @ + 1]
    ELSE IF ch = RBRACE THEN
        [st EXCEPT !.profundidade = @ - 1, !.achou = (st.profundidade - 1 = 0)]
    ELSE st

\* one iteration of the for loop: the body, then the next i unless it returned
ScanStep(texto, st) ==
    LET prox == ScanBody(st, texto[st.i])
    IN  IF prox.achou THEN prox ELSE [prox EXCEPT !.i = @ + 1]

RECURSIVE ScanIter(_, _, _)
\* up to n iterations of the for loop, stopping when it returns or i passes
\* the end of the text
ScanIter(texto, st, n) ==
    IF n = 0 \/ st.achou \/ st.i > Len(texto) THEN st
    ELSE IF n = 1 THEN ScanStep(texto, st)
    ELSE LET left == ScanIter(texto, st, n \div 2)
         IN  IF left.achou THEN left ELSE ScanIter(texto, left, n - (n \div 2))

\* extrair_json with a span that starts at the start of the text
extrair_json_do_comeco(texto) ==
    LET inicio == Find(texto, <<LBRACE>>)
        fim == ScanIter(texto, ScanInit(inicio), Len(texto))
    IN  IF inicio = 0 \/ ~fim.achou THEN None
        ELSE Str(SubSeq(texto, 1, fim.i))

\* AnaliseIA._extrair_json(texto): None, or the span from the first opening
\* brace to the brace that closes it
extrair_json(texto) ==
    LET inicio == Find(texto, <<LBRACE>>)
        fim == ScanIter(texto, ScanInit(inicio), Len(texto))
    IN  IF inicio = 0 \/ ~fim.achou THEN None
        ELSE Str(SubSeq(texto, inicio, fim.i))

(***************************************************************************)
(* AnaliseIA._reparar_json                                                 *)
(***************************************************************************)
\* one step of re.sub(r",\s*([}\]])", r"\1", s) at position st.i: a comma
\* that white space and a closing brace or bracket follow is dropped with
\* that white space, any other character is copied
VirgulaStep(s, st) ==
    LET j == SkipWs(s, st.i + 1)
    IN  IF s[st.i] = COMMA /\ j <= Len(s) /\ s[j] \in {RBRACE, RBRACK}
        THEN [i |-> j + 1, out |-> Append(st.out, s[j])]
        ELSE [i |-> st.i + 1, out |-> Append(st.out, s[st.i])]

RECURSIVE VirgulaIter(_, _, _)
\* up to n steps of the substitution, stopping at the end of s
VirgulaIter(s, st, n) ==
    IF n = 0 \/ st.i > Len(s) THEN st
    ELSE IF n = 1 THEN VirgulaStep(s, st)
    ELSE LET left == VirgulaIter(s, st, n \div 2)
         IN  IF left.i > Len(s) THEN left
             ELSE VirgulaIter(s, left, n - (n \div 2))

SubVirgulaFinal(s) == VirgulaIter(s, [i |-> 1, out |-> <<>>], Len(s)).out

\* the four replace calls of line 223, whose first arguments are all the
\* question mark in the source file
NormalizarAspas(texto) ==
    Replace(Replace(Replace(Replace(texto, <<QMARK>>, <<QUOTE>>),
        <<QMARK>>, <<QUOTE>>), <<QMARK>>, <<APOSTROPHE>>), <<QMARK>>, <<APOSTROPHE>>)

reparar_json(texto) ==
    IF texto = <<>> THEN None
    ELSE extrair_json(SubVirgulaFinal(NormalizarAspas(texto)))

(***************************************************************************)
(* AnaliseIA._extrair_campos_texto                                         *)
(***************************************************************************)
K_resumo == <<"r", "e", "s", "u", "m", "o">>
K_situacao == <<"s", "i", "t", "u", "a", "c", "a", "o">>
K_prazo == <<"p", "r", "a", "z", "o">>
K_proxima_acao == <<"p", "r", "o", "x", "i", "m", "a", "_", "a", "c", "a", "o">>
K_proxima == <<"p", "r", "o", "x", "i", "m", "a">>
K_acao == <<"a", "c", "a", "o">>

\* the keys of padroes, in the order of the dict
Chaves == <<K_resumo, K_situacao, K_prazo, K_proxima_acao>>

NullTokens ==
    { <<"n", "u", "l", "l">>, <<"n", "e", "n", "h", "u", "m">>,
      <<"n", "/", "a">>, <<"n", "a", "o">> }

\* the lower-case word w matches at position p under re.IGNORECASE
MatchesAt(texto, w, p) ==
    /\ p + Len(w) - 1 <= Len(texto)
    /\ \A k \in 1..Len(w) : LowerCh(texto[p + k - 1]) = w[k]

\* the label part of padroes[chave] matched at position p, ignoring case:
\* the position after it, 0 for no match.  proxima[_\s]?acao for the last key
LabelEnd(texto, chave, p) ==
    IF chave # K_proxima_acao
    THEN (IF MatchesAt(texto, chave, p) THEN p + Len(chave) ELSE 0)
    ELSE IF ~MatchesAt(texto, K_proxima, p) THEN 0
    ELSE IF p + 7 <= Len(texto) /\ (texto[p + 7] = UNDERSCORE \/ IsSpace(texto[p + 7]))
            /\ MatchesAt(texto, K_acao, p + 8)
         THEN p + 12
    ELSE IF MatchesAt(texto, K_acao, p + 7) THEN p + 11
    ELSE 0

\* FimDaLinha for a dot that matches the line feed too
FimDaLinhaDotAll(texto, i) == Len(texto)

\* the end of the line that holds position i: the last position before the
\* next line feed
FimDaLinha(texto, i) ==
    CHOOSE j \in i..Len(texto) :
        /\ j = Len(texto) \/ texto[j + 1] = NEWLINE
        /\ \A k \in i..j : texto[k] # NEWLINE

\* the start of group 1 when label\s*[:\-]\s*(.+) matches at position p, 0
\* when it does not: \s* takes all the white space and gives back, from the
\* end of the text, what (.+) needs
GrupoInicio(texto, chave, p) ==
    LET e == LabelEnd(texto, chave, p)
        j == IF e = 0 THEN 0 ELSE SkipWs(texto, e)
        sep == e # 0 /\ j <= Len(texto) /\ texto[j] \in {COLON, DASH}
        k == IF sep THEN SkipWs(texto, j + 1) ELSE 0
        volta == {c \in (j + 1)..Len(texto) : texto[c] # NEWLINE}
    IN  IF ~sep THEN 0
        ELSE IF k <= Len(texto) THEN k
        ELSE IF volta = {} THEN 0
        ELSE CHOOSE c \in volta : \A c2 \in volta : c2 <= c

\* re.search(padroes[chave], texto, flags=re.IGNORECASE): group 1 of the
\* leftmost match as Str, None for no match
Search(texto, chave) ==
    LET hits == {p \in 1..Len(texto) : GrupoInicio(texto, chave, p) # 0}
    IN  IF hits = {} THEN None
        ELSE LET p == CHOOSE p \in hits : \A q \in hits : p <= q
                 g == GrupoInicio(texto, chave, p)
             IN  Str(SubSeq(texto, g, FimDaLinha(texto, g)))

RECURSIVE CamposDe(_, _)
\* the for loop over padroes from the n-th key on
CamposDe(texto, n) ==
    IF n > Len(Chaves) THEN <<>>
    ELSE LET m == Search(texto, Chaves[n])
             valor == Strip(m.v)
         IN  IF m = None THEN CamposDe(texto, n + 1)
             ELSE << [k |-> Chaves[n],
                      val |-> IF Lower(valor) \in NullTokens THEN None ELSE Str(valor)] >>
                  \o CamposDe(texto, n + 1)

\* [found, pares]: found = FALSE is the None the method returns
extrair_campos_texto(texto) ==
    IF texto = <<>> THEN [found |-> FALSE, pares |-> <<>>]
    ELSE LET campos == CamposDe(texto, 1)
         IN  [found |-> campos # <<>>, pares |-> campos]

(***************************************************************************)
(* class AnaliseIA                                                         *)
(***************************************************************************)
NORMAL ==
    << "N", "O", "R", "M", "A", "L" >>

NaoFoiPossivel ==
    << "N", "a", "o", " ", "f", "o", "i", " ", "p", "o", "s", "s", "i", "v",
       "e", "l", " ", "a", "n", "a", "l", "i", "s", "a", "r" >>

ErroNaAnalise ==
    << "E", "r", "r", "o", " ", "n", "a", " ", "a", "n", "a", "l", "i", "s",
       "e" >>


\* the messages of aviso and erro; each atom stands for the text built there
AvisoSemJson == Str(<<"Resposta nao contem JSON valido">>)
AvisoJsonInvalido == Str(<<"JSON invalido: {e}">>)
ErroDe(exc) == Str(<<exc>>)

ResumoMax == 200

\* isinstance(exc, cls) for the exceptions of _parse
IsInstance(exc, cls) ==
    CASE cls = "Exception" -> exc # "None"
      [] cls = "JSONDecodeError" -> exc = "JSONDecodeError"
      [] OTHER -> FALSE

\* the fields __init__ sets before it calls _parse
Novo(raw_response) ==
    [raw |-> raw_response, resumo |-> Str(<<>>), situacao |-> Str(NORMAL),
     prazo |-> None, proxima_acao |-> None, erro |-> None, aviso |-> None]

\* x.upper() of a value read from the response: [exc, val]
UpperDe(x) ==
    IF IsStr(x) THEN [exc |-> "None", val |-> Str(Upper(x.v))]
    ELSE [exc |-> "AttributeError", val |-> None]

\* PopularJson without the call of upper()
PopularJsonSemUpper(self, dados) ==
    [self |-> [self EXCEPT !.resumo = Get(dados, K_resumo, Str(<<>>)),
                           !.situacao = Get(dados, K_situacao, Str(NORMAL)),
                           !.prazo = Get(dados, K_prazo, None),
                           !.proxima_acao = Get(dados, K_proxima_acao, None)],
     exc |-> "None"]

\* PopularJson without the assignment of line 126
PopularJsonSemPrazo(self, dados) ==
    LET s1 == [self EXCEPT !.resumo = Get(dados, K_resumo, Str(<<>>))]
        sit == UpperDe(Get(dados, K_situacao, Str(NORMAL)))
    IN  IF sit.exc # "None" THEN [self |-> s1, exc |-> sit.exc]
        ELSE [self |-> [s1 EXCEPT !.situacao = sit.val,
                                  !.proxima_acao = Get(dados, K_proxima_acao, None)],
              exc |-> "None"]

\* the four assignments from dados, lines 124-127: [self, exc]; an exception
\* leaves the fields after it unassigned
PopularJson(self, dados) ==
    LET s1 == [self EXCEPT !.resumo = Get(dados, K_resumo, Str(<<>>))]
        sit == UpperDe(Get(dados, K_situacao, Str(NORMAL)))
    IN  IF sit.exc # "None" THEN [self |-> s1, exc |-> sit.exc]
        ELSE [self |-> [s1 EXCEPT !.situacao = sit.val,
                                  !.prazo = Get(dados, K_prazo, None),
                                  !.proxima_acao = Get(dados, K_proxima_acao, None)],
              exc |-> "None"]

\* PopularCampos without the call of upper()
PopularCamposSemUpper(self, campos) ==
    [self |-> [self EXCEPT !.resumo = Get(campos, K_resumo, Str(<<>>)),
                           !.situacao = Get(campos, K_situacao, Str(NORMAL)),
                           !.prazo = Get(campos, K_prazo, None),
                           !.proxima_acao = Get(campos, K_proxima_acao, None)],
     exc |-> "None"]

\* the four assignments from campos, lines 132-135
PopularCampos(self, campos) ==
    LET s1 == [self EXCEPT !.resumo = Get(campos, K_resumo, Str(<<>>))]
        sit == UpperDe(Get(campos, K_situacao, Str(NORMAL)))
    IN  IF sit.exc # "None" THEN [self |-> s1, exc |-> sit.exc]
        ELSE [self |-> [s1 EXCEPT !.situacao = sit.val,
                                  !.prazo = Get(campos, K_prazo, None),
                                  !.proxima_acao = Get(campos, K_proxima_acao, None)],
              exc |-> "None"]

\* the four assignments from the repaired dados, lines 146-149
PopularReparado(self, dados) ==
    LET s1 == [self EXCEPT !.resumo = Get(dados, K_resumo, Str(<<>>))]
        sit == UpperDe(Get(dados, K_situacao, Str(NORMAL)))
    IN  IF sit.exc # "None" THEN [self |-> s1, exc |-> sit.exc]
        ELSE [self |-> [s1 EXCEPT !.situacao = sit.val,
                                  !.prazo = Get(dados, K_prazo, None),
                                  !.proxima_acao = Get(dados, K_proxima_acao, None)],
              exc |-> "None"]

\* UsarTexto with the raw response in the place of the cleaned text
UsarTextoRaw(self, texto) ==
    [self EXCEPT !.resumo = IF self.raw # <<>> THEN Str(Prefix(self.raw, ResumoMax))
                            ELSE Str(NaoFoiPossivel),
                 !.aviso = AvisoSemJson,
                 !.erro = None]

\* UsarTexto without the sentinel of an empty text
UsarTextoSemSentinela(self, texto) ==
    [self EXCEPT !.resumo = Str(Prefix(texto, ResumoMax)),
                 !.aviso = AvisoSemJson,
                 !.erro = None]

\* the else branch of lines 136-140: the text itself as the summary
UsarTexto(self, texto) ==
    [self EXCEPT !.resumo = IF texto # <<>> THEN Str(Prefix(texto, ResumoMax))
                            ELSE Str(NaoFoiPossivel),
                 !.aviso = AvisoSemJson,
                 !.erro = None]

\* what the try block hands on: the object, the exception raised ("None"
\* for none), the cleaned text and the tiers that ran
Saida(p, texto, passos) ==
    [self |-> p.self, exc |-> p.exc, texto |-> texto, passos |-> passos]

\* lines 122-127: dados is what json.loads(json_str) gave
ComDados(self, texto, dados) ==
    IF ~dados.ok
    THEN [self |-> self, exc |-> "JSONDecodeError", texto |-> texto,
          passos |-> <<"extrair_json", "loads">>]
    ELSE Saida(PopularJson(self, dados.pares), texto,
               <<"extrair_json", "loads", "popular">>)

\* lines 130-140: campos is what _extrair_campos_texto(texto) gave
ComCampos(self, texto, campos) ==
    IF campos.found
    THEN Saida(PopularCampos(self, campos.pares), texto,
               <<"extrair_json", "extrair_campos_texto", "popular">>)
    ELSE [self |-> UsarTexto(self, texto), exc |-> "None", texto |-> texto,
          passos |-> <<"extrair_json", "extrair_campos_texto", "texto">>]

\* ComJsonStr with the labeled lines tried before the span
ComJsonStrCamposPrimeiro(self, texto, json_str) ==
    IF extrair_campos_texto(texto).found
    THEN ComCampos(self, texto, extrair_campos_texto(texto))
    ELSE IF Truthy(json_str)
    THEN ComDados(self, texto, loads(json_str.v))
    ELSE ComCampos(self, texto, extrair_campos_texto(texto))

\* lines 119-140: json_str is what _extrair_json(texto) gave
ComJsonStr(self, texto, json_str) ==
    IF Truthy(json_str)
    THEN ComDados(self, texto, loads(json_str.v))
    ELSE ComCampos(self, texto, extrair_campos_texto(texto))

\* lines 117-140: texto is the cleaned text
ComTexto(self, texto) == ComJsonStr(self, texto, extrair_json(texto))

\* the try block of _parse, lines 104-140: [self, exc, passos, texto]; passos
\* lists the tiers in the order they ran
TryParse(self) == ComTexto(self, Texto(self.raw))

\* lines 145-150: dados is what json.loads(reparado) gave; [self, exc,
\* retornou]
ComReparado(self, dados, p) ==
    IF ~dados.ok THEN [self |-> self, exc |-> "JSONDecodeError", retornou |-> FALSE]
    ELSE [self |-> p.self, exc |-> p.exc, retornou |-> p.exc = "None"]

\* the inner try of the JSONDecodeError handler, lines 144-150
TryReparado(self, reparado) ==
    ComReparado(self, loads(reparado.v), PopularReparado(self, loads(reparado.v).pares))

\* UsarRaw without the warning
UsarRawSemAviso(self, s1) ==
    [s1 EXCEPT !.resumo = IF self.raw # <<>>
                          THEN Str(Prefix(self.raw, ResumoMax))
                          ELSE Str(ErroNaAnalise),
               !.erro = None]

\* lines 154-156: the raw response as the summary
UsarRaw(self, s1) ==
    [s1 EXCEPT !.resumo = IF self.raw # <<>>
                          THEN Str(Prefix(self.raw, ResumoMax))
                          ELSE Str(ErroNaAnalise),
               !.aviso = AvisoJsonInvalido,
               !.erro = None]

\* lines 151-156: r is what the inner try gave; except Exception: pass
\* catches whatever it raised
AposReparado(self, r) ==
    IF r.retornou
    THEN [self |-> r.self, exc |-> "None", falhas |-> <<>>,
          passos |-> <<"reparar_json", "loads", "popular">>]
    ELSE IF r.exc # "None" /\ ~IsInstance(r.exc, "Exception")
    THEN [self |-> r.self, exc |-> r.exc, falhas |-> <<r.exc>>,
          passos |-> <<"reparar_json", "loads">>]
    ELSE [self |-> UsarRaw(self, r.self), exc |-> "None", falhas |-> <<r.exc>>,
          passos |-> <<"reparar_json", "loads", "raw">>]

\* lines 143-156: reparado is what _reparar_json(texto) gave
ComReparo(self, reparado) ==
    IF Truthy(reparado) THEN AposReparado(self, TryReparado(self, reparado))
    ELSE [self |-> UsarRaw(self, self), exc |-> "None", falhas |-> <<>>,
          passos |-> <<"reparar_json", "raw">>]

\* the handler except json.JSONDecodeError, lines 141-156: [self, exc,
\* passos, falhas]; exc is what leaves the handler, falhas what was raised
\* and caught inside it
ExceptJSONDecodeError(self, texto) == ComReparo(self, reparar_json(texto))

\* the handler except Exception, lines 158-160
ExceptException(self, exc) ==
    [self EXCEPT !.resumo = Str(ErroNaAnalise), !.erro = ErroDe(exc)]

\* what the JSONDecodeError handler h adds to the try block t
AposHandler(t, h) ==
    [self |-> h.self, exc |-> h.exc, passos |-> t.passos \o h.passos,
     falhas |-> <<t.exc>> \o h.falhas]

\* the except clauses of _parse, lines 141-160: t is what the try block gave
Except(t) ==
    IF t.exc = "None"
    THEN [self |-> t.self, exc |-> "None", passos |-> t.passos, falhas |-> <<>>]
    ELSE IF IsInstance(t.exc, "JSONDecodeError")
    THEN AposHandler(t, ExceptJSONDecodeError(t.self, t.texto))
    ELSE IF IsInstance(t.exc, "Exception")
    THEN [self |-> ExceptException(t.self, t.exc), exc |-> "None",
          passos |-> t.passos, falhas |-> <<t.exc>>]
    ELSE [self |-> t.self, exc |-> t.exc, passos |-> t.passos,
          falhas |-> <<t.exc>>]

\* AnaliseIA._parse: [self, exc, passos, falhas]; exc is the exception that
\* leaves the method ("None": it returns), falhas the exceptions raised on
\* the way, caught or not
parse(self) == Except(TryParse(self))

\* AnaliseIA(raw_response): __init__ sets the defaults and calls _parse
AnaliseIA(raw_response) == parse(Novo(raw_response))

\* the property sucesso
sucesso(self) == self.erro = None /\ Truthy(self.resumo)

(***************************************************************************)
(* bot.py: limpar_resumo_planilha                                          *)
(***************************************************************************)
\* s.strip(chars) for the set of characters cs
StripChars(s, cs) ==
    LET keep == {k \in 1..Len(s) : s[k] \notin cs}
    IN  IF keep = {} THEN <<>>
        ELSE SubSeq(s, CHOOSE k \in keep : \A j \in keep : k <= j,
                       CHOOSE k \in keep : \A j \in keep : k >= j)

\* s.rstrip(chars) for the set of characters cs
RStripChars(s, cs) ==
    LET keep == {k \in 1..Len(s) : s[k] \notin cs}
    IN  IF keep = {} THEN <<>>
        ELSE SubSeq(s, 1, CHOOSE k \in keep : \A j \in keep : k >= j)

\* str(x) of a value read by json.loads: the text of a str, None for null,
\* True and False for the booleans; the literal of an integer and the
\* source of a container stand for what str() writes
StrDe(x) ==
    CASE x.t = "str" -> x.v
      [] x.t = "null" -> <<"N", "o", "n", "e">>
      [] x.t = "bool" -> <<UpperCh(x.v[1])>> \o Tail(x.v)
      [] OTHER -> x.v

\* re.sub(r'^[{\s]*', '', texto)
SubChaveInicial(texto) ==
    LET keep == {k \in 1..Len(texto) : texto[k] # LBRACE /\ ~IsSpace(texto[k])}
    IN  IF keep = {} THEN <<>>
        ELSE From(texto, CHOOSE k \in keep : \A j \in keep : k <= j)

\* re.sub(r'}\s*$', '', texto): the closing brace that only white space
\* follows
SubChaveFinal(texto) ==
    LET fins == {k \in 1..Len(texto) :
                    /\ texto[k] = RBRACE
                    /\ \A j \in (k + 1)..Len(texto) : IsSpace(texto[j])}
    IN  IF fins = {} THEN texto
        ELSE SubSeq(texto, 1, (CHOOSE k \in fins : \A j \in fins : k <= j) - 1)

\* the position after the word resumo and the quote that may follow it,
\* when "?resumo"? matches at p under re.IGNORECASE; 0 for no match
ResumoFim(texto, p) ==
    LET a == IF p <= Len(texto) /\ texto[p] = QUOTE THEN p + 1 ELSE p
        b == a + Len(K_resumo)
    IN  IF ~MatchesAt(texto, K_resumo, a) THEN 0
        ELSE IF b <= Len(texto) /\ texto[b] = QUOTE THEN b + 1
        ELSE b

\* the position after \s*[:\-]?\s* matched at c
SeparadorFim(texto, c) ==
    LET d == SkipWs(texto, c)
    IN  IF d <= Len(texto) /\ texto[d] \in {COLON, DASH} THEN SkipWs(texto, d + 1)
        ELSE d

\* the position after a match of "?resumo"?\s*[:\-]?\s* at p, 0 for no match
ChaveResumoFim(texto, p) ==
    IF ResumoFim(texto, p) = 0 THEN 0 ELSE SeparadorFim(texto, ResumoFim(texto, p))

RECURSIVE SubChaveResumoDe(_, _)
\* re.sub(r'"?resumo"?\s*[:\-]?\s*', '', texto, flags=re.IGNORECASE) from
\* position p on: every match is deleted, leftmost first
SubChaveResumoDe(texto, p) ==
    IF p > Len(texto) THEN <<>>
    ELSE IF ChaveResumoFim(texto, p) # 0
    THEN SubChaveResumoDe(texto, ChaveResumoFim(texto, p))
    ELSE <<texto[p]>> \o SubChaveResumoDe(texto, p + 1)

\* the tuple of the for loop of line 86
ChavesIrmas ==
    << K_situacao, K_prazo, K_proxima_acao, K_proxima \o <<SPACE>> \o K_acao >>

RECURSIVE CortarNaChave(_, _)
\* the for loop of lines 86-90 from the n-th chave on: the text is cut at
\* the first chave of the tuple found after the first character
CortarNaChave(texto, n) ==
    IF n > Len(ChavesIrmas) THEN texto
    ELSE IF Find(Lower(texto), ChavesIrmas[n]) > 1
    THEN RStripChars(Strip(SubSeq(texto, 1, Find(Lower(texto), ChavesIrmas[n]) - 1)),
                     {COMMA})
    ELSE CortarNaChave(texto, n + 1)

\* lines 82-92 on the stripped text
LimparInvolucro(texto) ==
    StripChars(
        StripChars(
            Strip(CortarNaChave(
                      SubChaveResumoDe(SubChaveFinal(SubChaveInicial(texto)), 1), 1)),
            {QUOTE}),
        {APOSTROPHE})

\* lines 75-80: the resumo of dados when the text is a JSON object that has
\* one, as [retornou, val]
ResumoDoJson(dados) ==
    IF dados.ok /\ HasKey(dados.pares, K_resumo)
    THEN [retornou |-> TRUE, val |-> Strip(StrDe(Get(dados.pares, K_resumo, None)))]
    ELSE [retornou |-> FALSE, val |-> <<>>]

\* lines 71-94 on texto = resumo.strip()
LimparTexto(texto) ==
    IF StartsWith(texto, <<LBRACE>>) \/ Find(Lower(texto), K_resumo) # 0
    THEN (IF ResumoDoJson(loads(texto)).retornou
          THEN ResumoDoJson(loads(texto)).val
          ELSE LimparInvolucro(texto))
    ELSE texto

\* limpar_resumo_planilha(resumo): [exc, val]; a resumo that is truthy and
\* not a str has no strip()
limpar_resumo_planilha(resumo) ==
    IF ~Truthy(resumo) THEN [exc |-> "None", val |-> <<>>]
    ELSE IF ~IsStr(resumo) THEN [exc |-> "AttributeError", val |-> <<>>]
    ELSE [exc |-> "None", val |-> LimparTexto(Strip(resumo.v))]

(***************************************************************************)
(* ia_analyzer.py: the providers' analisar                                 *)
(***************************************************************************)
ErroAoConsultarIA ==
    << "E", "r", "r", "o", " ", "a", "o", " ", "c", "o", "n", "s", "u", "l", "t",
       "a", "r", " ", "I", "A" >>

\* how a call of requests.post ends for analisar: a 200 answer with a text,
\* a 200 answer without one (GeminiProvider only), another status, an
\* exception
Desfechos(nome) ==
    IF nome = "gemini" THEN {"texto", "sem_texto", "http", "excecao"}
    ELSE {"texto", "http", "excecao"}

\* the text analisar writes in erro after the construction
ErroDoProvedor(nome, desfecho) ==
    CASE desfecho = "sem_texto" -> Str(<<"Resposta da IA sem texto">>)
      [] desfecho = "http" /\ nome = "gemini" -> Str(<<"API Gemini: {erro}">>)
      [] desfecho = "http" -> Str(<<"Ollama retornou HTTP {status}">>)
      [] OTHER -> Str(<<"{e}">>)

\* analise.erro = ... after analise = AnaliseIA("")
AtribuirErroEm(self, nome, desfecho) ==
    [self EXCEPT !.erro = ErroDoProvedor(nome, desfecho)]

\* analise.resumo = "Erro ao consultar IA"
AtribuirResumoEm(self) == [self EXCEPT !.resumo = Str(ErroAoConsultarIA)]

(***************************************************************************)
(* bot.py: BotConsulta.executar                                            *)
(***************************************************************************)
ATUALIZADO == <<"A", "T", "U", "A", "L", "I", "Z", "A", "D", "O">>
SEM_PUBLICACOES ==
    <<"S", "E", "M", "_", "P", "U", "B", "L", "I", "C", "A", "C", "O", "E", "S">>
ERRO_CONSULTA == <<"E", "R", "R", "O", "_", "C", "O", "N", "S", "U", "L", "T", "A">>

\* what api.consultar_processo hands to the loop: a failed query; total = 0
\* with no publication; total = 0 with publications (count is read from the
\* answer, api_comunica.py line 242); total > 0 with no publication; total
\* > 0 with publications
Resultados ==
    {"erro", "sem_publicacoes", "zero_com_itens", "inconsistente", "publicacoes"}

\* resultado.publicacoes is not empty
TemPublicacoes(resultado) == resultado \in {"zero_com_itens", "publicacoes"}

\* processar_processo calls self.analyzer.analisar, lines 180-189
ChamaAnalisar(self, resultado) == resultado = "publicacoes" /\ self.usar_ia

\* analise and analise.sucesso, lines 274 and 280-281
AnaliseBoa(tem_analise, a) == tem_analise /\ sucesso(a)

\* analise.resumo[:80] of line 275: a number and a boolean have no slice (a
\* dict raises too)
LogResumo(resumo) == IF resumo.t \in {"str", "arr"} THEN "None" ELSE "TypeError"

\* lines 266-283 once the summary is cleaned: limpo is what
\* limpar_resumo_planilha gave
ComResumoLimpo(status, limpo) ==
    [exc |-> limpo.exc, status |-> status, resumo |-> limpo.val, processo_ok |-> TRUE,
     erros |-> 0, sem_publicacao |-> 0]

\* lines 266-283: a result with publications
AvaliarPublicacoes(tem_analise, a) ==
    IF AnaliseBoa(tem_analise, a) /\ LogResumo(a.resumo) # "None"
    THEN [exc |-> LogResumo(a.resumo), status |-> Str(<<>>), resumo |-> <<>>,
          processo_ok |-> FALSE, erros |-> 0, sem_publicacao |-> 0]
    ELSE ComResumoLimpo(IF AnaliseBoa(tem_analise, a) THEN a.situacao ELSE Str(ATUALIZADO),
                        limpar_resumo_planilha(IF AnaliseBoa(tem_analise, a)
                                               THEN a.resumo ELSE Str(<<>>)))

\* lines 254-283: the status and the summary of the process, whether it
\* counts as done, and what is added to erros and sem_publicacao; exc is the
\* exception raised on the way
Avaliar(resultado, tem_analise, a) ==
    CASE resultado \in {"sem_publicacoes", "zero_com_itens"} ->
            [exc |-> "None", status |-> Str(SEM_PUBLICACOES), resumo |-> <<>>,
             processo_ok |-> TRUE, erros |-> 0, sem_publicacao |-> 1]
      [] resultado = "inconsistente" ->
            [exc |-> "None", status |-> Str(ERRO_CONSULTA), resumo |-> <<>>,
             processo_ok |-> FALSE, erros |-> 1, sem_publicacao |-> 0]
      [] OTHER -> AvaliarPublicacoes(tem_analise, a)

\* lines 287-293: ultima.data_formatada is read when resultado.publicacoes
\* is not empty, and ultima is None unless total > 0
ExcecaoDaAtualizacao(self, resultado) ==
    IF ~self.modo_teste /\ resultado = "zero_com_itens" THEN "AttributeError"
    ELSE "None"

\* Atualizacoes without the test of modo_teste
AtualizacoesSemTeste(self, av) ==
    << [processo |-> self.i, status |-> av.status, resumo_ia |-> av.resumo] >>

\* the calls of sheets.atualizar_processo of one iteration, lines 286-305
Atualizacoes(self, av) ==
    IF ~self.modo_teste
    THEN << [processo |-> self.i, status |-> av.status, resumo_ia |-> av.resumo] >>
    ELSE <<>>

\* the counters after lines 254-305; gravou is what sheets.atualizar_processo
\* returned
Contar(self, av, gravou) ==
    [self EXCEPT
        !.sem_publicacao = @ + av.sem_publicacao,
        !.erros = @ + av.erros + (IF ~self.modo_teste /\ ~gravou THEN 1 ELSE 0),
        !.sucesso = @ + (IF (self.modo_teste \/ gravou) /\ av.processo_ok THEN 1 ELSE 0)]

\* the next iteration of the for loop of line 240, or the end of it
Proximo(self) ==
    [self EXCEPT !.i = @ + 1, !.resultado = "nenhum", !.tem_analise = FALSE,
                 !.pc = IF self.i + 1 > self.total THEN "fim" ELSE "laco"]

\* an exception leaves executar
Levantar(self, exc) == [self EXCEPT !.pc = "excecao", !.exc = exc]

(***************************************************************************)
(* api_comunica.py: APIComunica._aguardar_rate_limit                       *)
(***************************************************************************)
\* APIComunica() with config.delay_entre_consultas = delay, lines 139-143
ClienteNovo(delay) == [delay |-> delay, _ultimo_request |-> 0]

\* Espera for a client that never sleeps
EsperaNenhuma(self, agora) == 0

\* lines 152-156: the argument of time.sleep, 0 when it is not called
Espera(self, agora) ==
    IF agora - self._ultimo_request < self.delay
    THEN self.delay - (agora - self._ultimo_request)
    ELSE 0

\* line 158: self._ultimo_request = time.time()
Registrar(self, agora) == [self EXCEPT !._ultimo_request = agora]

(***************************************************************************)
(* The raw responses of the model: the texts handed to AnaliseIA           *)
(***************************************************************************)
\* white space added around a response: at most MaxPad characters a side
MaxPad == 1

\* the length of the short texts that are enumerated in full
MaxCurto == 4

\* the long texts have ResumoMax - MaxExtra .. ResumoMax + MaxExtra characters
MaxExtra == 2

\* the number of fence markers and white space characters of a blank response
MaxCercas == 3

\* the length of the texts the locator is run on alone
MaxScan == 5

RECURSIVE Cat(_)
\* the concatenation of the texts of a sequence
Cat(ss) == IF ss = <<>> THEN <<>> ELSE Head(ss) \o Cat(Tail(ss))

\* all the texts of at most n characters of the set A
Textos(A, n) == UNION {[1..k -> A] : k \in 0..n}

\* c repeated n times
Rep(c, n) == [k \in 1..n |-> c]

Q(s) == <<QUOTE>> \o s \o <<QUOTE>>

\* the source of an absent key
Ausente == <<"<ausente>">>

\* the sources of the values of resumo: strings with a brace, an escaped
\* quote, a question mark, a comma before a brace and a fence inside, the
\* empty string, null and a number
LitsResumo ==
    { Q(<<"o", "k">>), Q(<<>>), Q(<<"a", "}", "b">>), Q(<<"a", BACKSLASH, QUOTE, "{">>),
      Q(<<"o", "?">>), Q(<<"a", ",", "}">>), Q(<<"a">> \o FENCE \o <<"b">>),
      <<"n", "u", "l", "l">>, <<"5">> }

LitsSituacao == { Q(<<"u", "r">>), Q(<<"O", "k">>), <<"n", "u", "l", "l">>, <<"1">> }

LitsPrazo == { <<"n", "u", "l", "l">>, Q(<<"5", "d">>) }

LitsProximaAcao == { <<"n", "u", "l", "l">>, Q(<<"p", "r">>), <<"[", "1", "]">> }

\* "key": lit, or nothing for an absent key
Par(key, lit, sp) ==
    IF lit = Ausente THEN <<>>
    ELSE << Q(key) \o <<COLON>> \o sp \o lit >>

RECURSIVE Juntar(_, _)
\* the texts of ss joined by sep
Juntar(ss, sep) ==
    IF ss = <<>> THEN <<>>
    ELSE IF Len(ss) = 1 THEN ss[1]
    ELSE ss[1] \o sep \o Juntar(Tail(ss), sep)

\* the source of an object with the four keys in the order of the prompt;
\* sp: the white space after a colon and a comma; virgula: a comma before the
\* closing brace
Objeto(r, st, pz, pa, sp, virgula) ==
    LET pares == Par(K_resumo, r, sp) \o Par(K_situacao, st, sp)
                     \o Par(K_prazo, pz, sp) \o Par(K_proxima_acao, pa, sp)
    IN  <<LBRACE>> \o Juntar(pares, <<COMMA>> \o sp)
            \o (IF virgula /\ pares # <<>> THEN <<COMMA>> ELSE <<>>) \o <<RBRACE>>

\* objects with all four keys
ObjetosCompletos ==
    { Objeto(r, st, pz, pa, sp, vg) :
        r \in LitsResumo, st \in LitsSituacao, pz \in LitsPrazo,
        pa \in LitsProximaAcao, sp \in {<<>>, <<SPACE>>}, vg \in BOOLEAN }

\* objects with any subset of the keys
ObjetosParciais ==
    { Objeto(r, st, pz, pa, <<SPACE>>, vg) :
        r \in {Ausente, Q(<<"o", "k">>)}, st \in {Ausente, Q(<<"u", "r">>)},
        pz \in {Ausente, Q(<<"5", "d">>)}, pa \in {Ausente, Q(<<"p", "r">>)},
        vg \in BOOLEAN }

\* objects with a repeated key, a nested object and other keys
ObjetosOutros ==
    { <<LBRACE>> \o Q(K_resumo) \o <<COLON>> \o Q(<<"a">>) \o <<COMMA>>
          \o Q(K_resumo) \o <<COLON>> \o Q(<<"b">>) \o <<RBRACE>>,
      <<LBRACE>> \o Q(<<"x">>) \o <<COLON, LBRACE>> \o Q(K_resumo) \o <<COLON>>
          \o Q(<<"a">>) \o <<RBRACE, RBRACE>>,
      <<LBRACE>> \o Q(K_resumo) \o <<COLON, LBRACE, RBRACE, RBRACE>>,
      <<LBRACE>> \o Q(K_resumo) \o <<COLON>> \o Q(<<"a", NEWLINE, "b">>) \o <<RBRACE>> }

\* the prose a model puts before a fenced answer
Prosas ==
    { <<>>, <<"R", "e", "s", "p", "o", "s", "t", "a", ":", NEWLINE>>,
      <<"v", "e", "j", "a", " ", "{", "x", "}", ":", NEWLINE>>,
      <<"d", "i", "z", " ", QUOTE, "a", ":", NEWLINE>> }

\* the tag of an opening fence
Tags == { <<>>, JSON_TAG, <<"J", "S", "O", "N">> }

\* corpo in a fence after prosa
Cercar(prosa, tag, esp, corpo) ==
    prosa \o FENCE \o tag \o esp \o corpo \o esp \o FENCE

\* the objects that are put in a fence
ObjetosCercados ==
    { Objeto(r, st, pz, pa, <<SPACE>>, FALSE) :
        r \in LitsResumo, st \in {Q(<<"u", "r">>), <<"n", "u", "l", "l">>},
        pz \in {<<"n", "u", "l", "l">>}, pa \in {Q(<<"p", "r">>)} }
    \cup { Objeto(Ausente, Q(<<"u", "r">>), Ausente, Ausente, <<>>, FALSE) }

EntradasCercadas ==
    { Cercar(prosa, tag, esp, corpo) :
        prosa \in Prosas, tag \in Tags, esp \in {<<>>, <<NEWLINE>>},
        corpo \in ObjetosCercados }

\* the labels of an answer in labeled lines, as the prompt-free answers of
\* the tests write them
Rotulos ==
    << K_resumo, K_situacao, K_prazo,
       <<"p", "r", "o", "x", "i", "m", "a", " ", "a", "c", "a", "o">> >>

\* a label in one of three letter cases
Caixa(w, caixa) ==
    CASE caixa = "lower" -> w
      [] caixa = "upper" -> Upper(w)
      [] OTHER -> <<UpperCh(w[1])>> \o Tail(w)

ValoresResumo ==
    { Ausente, <<"a", "l", "g", "o">>, <<>>, <<"n", "u", "l", "l">>,
      <<"x", " ", "p", "r", "a", "z", "o", ":", " ", "y">>,
      <<"a", " ", "S", "i", "t", "u", "a", "c", "a", "o", " ", "-", " ", "b">> }

ValoresSituacao == { Ausente, <<"u", "r">>, <<"O", "k">>, <<"N", "u", "l", "l">> }

ValoresPrazo == { Ausente, <<"5", " ", "d">>, <<"n", "/", "a">> }

ValoresProximaAcao == { Ausente, <<"p", "r">>, <<"n", "a", "o">> }

\* the line of the n-th label, or nothing for an absent value
Linha(n, valor, caixa, sep) ==
    IF valor = Ausente THEN <<>> ELSE << Caixa(Rotulos[n], caixa) \o sep \o valor >>

\* the labeled lines in the order of the prompt, or in the reverse order
Linhas(v1, v2, v3, v4, caixa, sep, inverso) ==
    LET ls == Linha(1, v1, caixa, sep) \o Linha(2, v2, caixa, sep)
                  \o Linha(3, v3, caixa, sep) \o Linha(4, v4, caixa, sep)
    IN  Juntar(IF inverso THEN [k \in 1..Len(ls) |-> ls[Len(ls) + 1 - k]] ELSE ls,
               <<NEWLINE>>)

EntradasCampos ==
    { Linhas(v1, v2, v3, v4, caixa, sep, FALSE) :
        v1 \in ValoresResumo, v2 \in ValoresSituacao, v3 \in ValoresPrazo,
        v4 \in ValoresProximaAcao, caixa \in {"title", "lower", "upper"},
        sep \in {<<COLON, SPACE>>, <<SPACE, DASH, SPACE>>} }
    \cup
    { Linhas(v1, v2, v3, v4, "title", <<COLON>>, inverso) :
        v1 \in ValoresResumo, v2 \in ValoresSituacao, v3 \in ValoresPrazo,
        v4 \in ValoresProximaAcao, inverso \in BOOLEAN }

\* labeled lines beside braces, the other spellings of the last label, and
\* labeled lines in and around fence markers
EntradasMistas ==
    { K_resumo \o <<COLON, SPACE, "a", SPACE, LBRACE, "b">>,
      K_resumo \o <<COLON, SPACE, "a", SPACE, LBRACE, "b", RBRACE>>,
      <<LBRACE, "b", RBRACE, NEWLINE>> \o K_resumo \o <<COLON, SPACE, "a">>,
      K_proxima_acao \o <<COLON, SPACE, "a">>,
      K_proxima \o K_acao \o <<DASH, "a">>,
      K_proxima \o <<SPACE, SPACE>> \o K_acao \o <<COLON, "a">>,
      K_resumo \o <<SPACE, "a", COLON, SPACE, "b">>,
      K_resumo \o <<COLON>>,
      Cercar(<<>>, <<>>, <<NEWLINE>>,
             Linhas(<<"a", "l", "g", "o">>, <<"u", "r">>, <<"5", " ", "d">>, <<"p", "r">>,
                    "title", <<COLON, SPACE>>, FALSE)),
      Cercar(<<>>, JSON_TAG, <<NEWLINE>>,
             Linhas(<<"a", "l", "g", "o">>, <<"u", "r">>, <<"5", " ", "d">>, <<"p", "r">>,
                    "title", <<COLON, SPACE>>, FALSE)),
      Linhas(<<"a">> \o FENCE \o <<"b">>, <<"u", "r">>, <<"5", " ", "d">>, <<"p", "r">>,
             "title", <<COLON, SPACE>>, FALSE),
      Linhas(<<"a", "l", "g", "o">>, <<"u", "r">>, FENCE \o <<"5", " ", "d">>, FENCE,
             "title", <<COLON, SPACE>>, FALSE) }

\* every text of at most MaxCurto characters of these
EntradasCurtas == Textos({"a", SPACE, NEWLINE, LBRACE, RBRACE, QUOTE}, MaxCurto)

\* prose around the limit of a summary, alone and after a fence
EntradasLongas ==
    { pre \o Rep("x", n) :
        n \in (ResumoMax - MaxExtra)..(ResumoMax + MaxExtra),
        pre \in {<<>>, <<SPACE>>, FENCE, <<"a", SPACE>>} }

\* the pieces of a response that holds nothing but fences and white space,
\* and two that are neither
Pecas ==
    { <<SPACE>>, <<NEWLINE>>, FENCE, FENCE \o JSON_TAG, FENCE \o <<"J", "S", "O", "N">>,
      <<BACKTICK>>, <<"a">> }

EntradasCercas == { Cat(ps) : ps \in Textos(Pecas, MaxCercas) }

\* white space around a response
Pads == Textos({SPACE, NEWLINE}, MaxPad)

EntradasComPad ==
    { antes \o corpo \o depois :
        antes \in Pads, depois \in Pads,
        corpo \in { Objeto(Q(<<"o", "k">>), Q(<<"u", "r">>), <<"n", "u", "l", "l">>,
                           <<"n", "u", "l", "l">>, <<SPACE>>, FALSE),
                    Objeto(Q(<<"o", "k">>), Q(<<"u", "r">>), <<"n", "u", "l", "l">>,
                           <<"n", "u", "l", "l">>, <<SPACE>>, TRUE),
                    Linhas(<<"a", "l", "g", "o">>, <<"u", "r">>, <<"5", " ", "d">>,
                           <<"p", "r">>, "title", <<COLON, SPACE>>, FALSE),
                    <<"a", SPACE, "b">>,
                    Rep("x", ResumoMax + 1),
                    Cercar(<<>>, JSON_TAG, <<NEWLINE>>,
                           Objeto(Q(<<"o", "k">>), Q(<<"u", "r">>), Ausente, Ausente,
                                  <<SPACE>>, FALSE)) } }

\* a JSON object with labeled lines before it or after it: the object is
\* valid, has a trailing comma, or has a situacao that is not a string
EntradasJsonComRotulos ==
    { antes \o obj \o depois :
        antes \in { <<>>, K_resumo \o <<COLON, SPACE, "x", NEWLINE>>,
                    <<"S", "i", "t", "u", "a", "c", "a", "o", COLON, SPACE, "o", "k", NEWLINE>> },
        depois \in { <<>>, <<NEWLINE, "P", "r", "a", "z", "o", COLON, SPACE, "9", "d">>,
                     <<NEWLINE>> \o K_resumo \o <<SPACE, DASH, SPACE, "y">> },
        obj \in { Objeto(Q(<<"o", "k">>), st, <<"n", "u", "l", "l">>, Q(<<"p", "r">>),
                         <<SPACE>>, vg) :
                    st \in {Q(<<"u", "r">>), <<"n", "u", "l", "l">>}, vg \in BOOLEAN } }

\* the texts the locator is followed on: every text of at most MaxScan
\* characters of braces, quotes, backslashes and a letter, and objects whose
\* strings hold braces and escaped quotes
EntradasScan ==
    Textos({LBRACE, RBRACE, QUOTE, BACKSLASH, "a"}, MaxScan)
        \cup { Objeto(r, Q(<<"u", "r">>), <<"n", "u", "l", "l">>, Q(<<"p", "r">>),
                      <<SPACE>>, FALSE) : r \in LitsResumo }
        \cup ObjetosOutros

Entradas ==
    ObjetosCompletos \cup ObjetosParciais \cup ObjetosOutros \cup EntradasCercadas
        \cup EntradasCampos \cup EntradasMistas \cup EntradasCurtas
        \cup EntradasLongas \cup EntradasCercas \cup EntradasComPad
        \cup EntradasJsonComRotulos

(***************************************************************************)
(* The construction of an AnaliseIA, and the locator run step by step      *)
(***************************************************************************)
VARIABLES
    raw,        \* the raw_response handed to AnaliseIA
    analise,    \* the fields of the object
    excecao,    \* the exception that left the constructor, "None" for none
    passos,     \* the tiers _parse ran, in order
    falhas,     \* the exceptions raised while _parse ran, caught or not
    pc,         \* "init": the defaults are set; "done": the constructor is over
    scan,       \* a call of _extrair_json: its argument, its locals, its result
    limpeza,    \* a call of limpar_resumo_planilha: its argument and its result
    bot,        \* a BotConsulta and the locals of its executar
    planilha,   \* the calls of sheets.atualizar_processo, in order
    provedor,   \* the IAProvider of the bot and its call of analisar
    chamadas,   \* constructions of AnaliseIA that run side by side
    clientes,   \* the instances of APIComunica
    relogio,    \* time.time()
    pedidos     \* the requests sent by consultar_processo, in order

vars ==
    <<raw, analise, excecao, passos, falhas, pc, scan, limpeza, bot, planilha,
      provedor, chamadas, clientes, relogio, pedidos>>

\* the construction of one AnaliseIA
varsAnalise == <<raw, analise, excecao, passos, falhas, pc, scan>>

\* the bot and its provider
varsBot == <<bot, planilha, provedor>>

\* the clients of the API and their clock
varsApi == <<clientes, relogio, pedidos>>

\* the state outside the construction of one AnaliseIA
varsFora == <<limpeza, varsBot, chamadas, varsApi>>

\* no call of limpar_resumo_planilha is being followed
LimpezaIdle == [resumo |-> None, retorno |-> <<>>, exc |-> "None", pc |-> "idle"]

\* no bot is running
BotIdle ==
    /\ bot = [pc |-> "idle"]
    /\ planilha = <<>>
    /\ provedor = [pc |-> "idle"]

\* no construction runs beside another
ChamadasIdle == chamadas = <<>>

\* no client of the API exists
ApiIdle ==
    /\ clientes = <<>>
    /\ relogio = 0
    /\ pedidos = <<>>

\* nothing outside the construction of one AnaliseIA is running
ForaIdle ==
    /\ limpeza = LimpezaIdle
    /\ BotIdle
    /\ ChamadasIdle
    /\ ApiIdle

\* no call of the locator is being followed
ScanIdle ==
    [texto |-> <<>>, inicio |-> 0, i |-> 0, profundidade |-> 0, em_string |-> FALSE,
     escape |-> FALSE, achou |-> FALSE, retorno |-> None, pc |-> "idle"]

\* __init__ has set the defaults of lines 91-97 and is about to call _parse
Init ==
    /\ raw \in Entradas
    /\ analise = Novo(raw)
    /\ excecao = "None"
    /\ passos = <<>>
    /\ falhas = <<>>
    /\ pc = "init"
    /\ scan = ScanIdle
    /\ ForaIdle

\* what the call of _parse leaves behind
Retornar(r) ==
    /\ analise' = r.self
    /\ excecao' = r.exc
    /\ passos' = r.passos
    /\ falhas' = r.falhas

\* self._parse(), line 99
Parse ==
    /\ pc = "init"
    /\ Retornar(parse(analise))
    /\ pc' = "done"
    /\ UNCHANGED <<raw, scan, varsFora>>

Next == Parse

Spec == Init /\ [][Next]_vars

\* the call self._extrair_json(texto) of line 117
ScanChamada ==
    /\ pc = "init"
    /\ scan.pc = "idle"
    /\ scan' = [scan EXCEPT !.texto = Texto(raw), !.pc = "call"]
    /\ UNCHANGED <<raw, analise, excecao, passos, falhas, pc, varsFora>>

\* lines 164-170: the first opening brace, and the locals of the loop
ScanInicio ==
    /\ scan.pc = "call"
    /\ LET inicio == Find(scan.texto, <<LBRACE>>)
       IN  scan' = IF inicio = 0
                   THEN [scan EXCEPT !.retorno = None, !.pc = "done"]
                   ELSE [scan EXCEPT !.inicio = inicio, !.i = inicio,
                                     !.profundidade = 0, !.em_string = FALSE,
                                     !.escape = FALSE, !.achou = FALSE, !.pc = "loop"]
    /\ UNCHANGED <<raw, analise, excecao, passos, falhas, pc, varsFora>>

\* one iteration of the for loop of lines 172-191
ScanIteracao ==
    /\ scan.pc = "loop"
    /\ ~scan.achou
    /\ scan.i <= Len(scan.texto)
    /\ scan' = ScanStep(scan.texto, scan)
    /\ UNCHANGED <<raw, analise, excecao, passos, falhas, pc, varsFora>>

\* the return of line 191, or of line 193 when the loop is over
ScanRetorno ==
    /\ scan.pc = "loop"
    /\ scan.achou \/ scan.i > Len(scan.texto)
    /\ scan' = [scan EXCEPT
                    !.retorno = IF scan.achou
                                THEN Str(SubSeq(scan.texto, scan.inicio, scan.i))
                                ELSE None,
                    !.pc = "done"]
    /\ UNCHANGED <<raw, analise, excecao, passos, falhas, pc, varsFora>>

InitScan ==
    /\ raw \in EntradasScan
    /\ analise = Novo(raw)
    /\ excecao = "None"
    /\ passos = <<>>
    /\ falhas = <<>>
    /\ pc = "init"
    /\ scan = ScanIdle
    /\ ForaIdle

NextScan == ScanChamada \/ ScanInicio \/ ScanIteracao \/ ScanRetorno

SpecScan == InitScan /\ [][NextScan]_vars

(***************************************************************************)
(* A call of limpar_resumo_planilha                                        *)
(***************************************************************************)
\* the summaries handed to limpar_resumo_planilha: what is left of a JSON
\* answer (an opening brace, the key resumo, the summary, sibling fields, a
\* closing brace), a summary of labeled lines, and values that are not str
ResumosBrutos ==
    { Str(abre \o chave \o corpo \o irmaos \o fecha) :
        abre \in { <<>>, <<LBRACE>>, <<LBRACE, SPACE>> },
        chave \in { <<>>, Q(K_resumo) \o <<COLON, SPACE>>, K_resumo \o <<COLON, SPACE>>,
                    <<"R", "e", "s", "u", "m", "o", SPACE, DASH, SPACE>> },
        corpo \in { <<>>, <<"a">>, Q(<<"a", SPACE, "b">>), <<"o", "k", QMARK>> },
        irmaos \in { <<>>,
                     <<COMMA, SPACE>> \o Q(K_situacao) \o <<COLON, SPACE>> \o Q(<<"x">>),
                     <<SPACE>> \o K_prazo \o <<SPACE, "5", SPACE>> \o K_situacao
                         \o <<SPACE, "y">>,
                     <<NEWLINE, "P", "r", "a", "z", "o", COLON, SPACE, "5">>,
                     <<COMMA, SPACE>> \o Q(K_proxima_acao) \o <<COLON, SPACE>>
                         \o Q(<<"z">>),
                     <<SPACE, "P", "r", "o", "x", "i", "m", "a", SPACE>> \o K_acao
                         \o <<SPACE, "z">> },
        fecha \in { <<>>, <<RBRACE>>, <<COMMA, RBRACE>> } }
    \cup { None, Str(<<SPACE, SPACE>>), [t |-> "num", v |-> <<"5">>],
           [t |-> "num", v |-> <<"0">>], [t |-> "arr", v |-> <<"[", "1", "]">>] }

\* no AnaliseIA is under construction
AnaliseIdle ==
    /\ raw = <<>>
    /\ analise = Novo(<<>>)
    /\ excecao = "None"
    /\ passos = <<>>
    /\ falhas = <<>>
    /\ pc = "idle"
    /\ scan = ScanIdle

InitLimpar ==
    /\ AnaliseIdle
    /\ limpeza \in { [resumo |-> r, retorno |-> <<>>, exc |-> "None", pc |-> "init"] :
                       r \in ResumosBrutos }
    /\ BotIdle
    /\ ChamadasIdle
    /\ ApiIdle

\* the call returned r, or raised r.exc
LimpezaFeita(l, r) == [l EXCEPT !.retorno = r.val, !.exc = r.exc, !.pc = "done"]

\* limpar_resumo_planilha(resumo), bot.py lines 66-94
Limpar ==
    /\ limpeza.pc = "init"
    /\ limpeza' = LimpezaFeita(limpeza, limpar_resumo_planilha(limpeza.resumo))
    /\ UNCHANGED <<varsAnalise, varsBot, chamadas, varsApi>>

NextLimpar == Limpar

SpecLimpar == InitLimpar /\ [][NextLimpar]_vars

(***************************************************************************)
(* BotConsulta.executar with the provider's analisar                       *)
(***************************************************************************)
\* the most processes sheets.listar_processos returns
MaxProcessos == 2

\* the texts a model answers with
Respostas ==
    { Objeto(Q(<<"o", "k">>), Q(<<"u", "r">>), <<"n", "u", "l", "l">>, Q(<<"p", "r">>),
             <<SPACE>>, FALSE),
      Objeto(<<"5">>, Q(<<"u", "r">>), <<"n", "u", "l", "l">>, Q(<<"p", "r">>),
             <<SPACE>>, FALSE),
      Objeto(<<"[", "1", "]">>, Q(<<"u", "r">>), Ausente, Ausente, <<SPACE>>, FALSE),
      Objeto(Q(<<"o", "k">>), <<"n", "u", "l", "l">>, Ausente, Ausente, <<SPACE>>, FALSE),
      Objeto(Q(<<"o", "?">>), Q(<<"u", "r">>), Ausente, Ausente, <<SPACE>>, TRUE),
      Linhas(<<"a", "l", "g", "o">>, <<"u", "r">>, <<"5", " ", "d">>, <<"p", "r">>,
             "title", <<COLON, SPACE>>, FALSE),
      Linhas(Ausente, <<"u", "r">>, Ausente, Ausente, "title", <<COLON, SPACE>>, FALSE),
      <<"a", SPACE, "b">> }

\* the texts handed to AnaliseIA on a 200 answer: GeminiProvider tests
\* 'if not texto' first, OllamaProvider hands over an empty text too
TextosDe(nome) == IF nome = "gemini" THEN Respostas ELSE Respostas \cup {<<>>}

\* BotConsulta(usar_ia, modo_teste) before executar
BotNovo(usar_ia, modo_teste) ==
    [usar_ia |-> usar_ia, modo_teste |-> modo_teste, pc |-> "executar", i |-> 0,
     total |-> 0, sucesso |-> 0, erros |-> 0, sem_publicacao |-> 0,
     resultado |-> "nenhum", tem_analise |-> FALSE, exc |-> "None"]

InitBot ==
    /\ AnaliseIdle
    /\ limpeza = LimpezaIdle
    /\ bot \in { BotNovo(ia, teste) : ia \in BOOLEAN, teste \in BOOLEAN }
    /\ planilha = <<>>
    /\ provedor \in { [nome |-> n, pc |-> "idle", desfecho |-> "nenhum"] :
                        n \in {"gemini", "ollama"} }
    /\ ChamadasIdle
    /\ ApiIdle

\* lines 200-238: the configuration is checked and the processes are listed;
\* ok is what verificar_configuracao returned, n the number of processes
Executar ==
    /\ bot.pc = "executar"
    /\ \E ok \in BOOLEAN, n \in 0..MaxProcessos :
          bot' = IF ~ok THEN [bot EXCEPT !.pc = "abortado"]
                 ELSE IF n = 0 THEN [bot EXCEPT !.pc = "vazio"]
                 ELSE [bot EXCEPT !.pc = "laco", !.total = n, !.i = 1]
    /\ UNCHANGED <<varsAnalise, limpeza, planilha, provedor, chamadas, varsApi>>

\* line 245 up to the call of analisar, and lines 249-252 for a failed
\* query: r is what api.consultar_processo returned
ProcessarProcesso ==
    /\ bot.pc = "laco"
    /\ \E r \in Resultados :
          bot' = IF r = "erro" THEN Proximo([bot EXCEPT !.erros = @ + 1])
                 ELSE IF ChamaAnalisar(bot, r)
                 THEN [bot EXCEPT !.resultado = r, !.pc = "analisar"]
                 ELSE [bot EXCEPT !.resultado = r, !.tem_analise = FALSE,
                                  !.pc = "atualizar"]
    /\ UNCHANGED <<varsAnalise, limpeza, planilha, provedor, chamadas, varsApi>>

\* analisar sends the prompt and calls AnaliseIA(texto) or AnaliseIA(""):
\* __init__ sets the defaults and is about to call _parse
AnalisarPedido ==
    /\ bot.pc = "analisar"
    /\ provedor.pc = "idle"
    /\ \E d \in Desfechos(provedor.nome), x \in TextosDe(provedor.nome) :
          /\ raw' = IF d = "texto" THEN x ELSE <<>>
          /\ provedor' = [provedor EXCEPT !.pc = "construindo", !.desfecho = d]
    /\ analise' = Novo(raw')
    /\ excecao' = "None"
    /\ passos' = <<>>
    /\ falhas' = <<>>
    /\ pc' = "init"
    /\ UNCHANGED <<scan, limpeza, bot, planilha, chamadas, varsApi>>

\* analise.erro = ..., lines 352, 359, 365, 441 and 447
AtribuirErro ==
    /\ pc = "done"
    /\ provedor.pc = "construindo"
    /\ provedor.desfecho # "texto"
    /\ analise' = AtribuirErroEm(analise, provedor.nome, provedor.desfecho)
    /\ provedor' = [provedor EXCEPT !.pc = "erro"]
    /\ UNCHANGED <<raw, excecao, passos, falhas, pc, scan, limpeza, bot, planilha,
                   chamadas, varsApi>>

\* analise.resumo = "Erro ao consultar IA", lines 353, 360, 366, 442 and 448
AtribuirResumo ==
    /\ provedor.pc = "erro"
    /\ analise' = AtribuirResumoEm(analise)
    /\ provedor' = [provedor EXCEPT !.pc = "retorno"]
    /\ UNCHANGED <<raw, excecao, passos, falhas, pc, scan, limpeza, bot, planilha,
                   chamadas, varsApi>>

\* analisar returns the object to processar_processo, which returns it to
\* the loop
AnalisarRetorno ==
    /\ bot.pc = "analisar"
    /\ \/ pc = "done" /\ provedor.pc = "construindo" /\ provedor.desfecho = "texto"
       \/ provedor.pc = "retorno"
    /\ provedor' = [provedor EXCEPT !.pc = "idle", !.desfecho = "nenhum"]
    /\ bot' = [bot EXCEPT !.tem_analise = TRUE, !.pc = "atualizar"]
    /\ UNCHANGED <<varsAnalise, limpeza, planilha, chamadas, varsApi>>

\* lines 286-305 for what lines 254-283 gave
Gravar(av, exc, gravou) ==
    IF av.exc # "None"
    THEN bot' = Levantar(bot, av.exc) /\ planilha' = planilha
    ELSE IF exc # "None"
    THEN /\ bot' = Levantar([bot EXCEPT !.sem_publicacao = @ + av.sem_publicacao,
                                        !.erros = @ + av.erros], exc)
         /\ planilha' = planilha
    ELSE /\ planilha' = planilha \o Atualizacoes(bot, av)
         /\ bot' = Proximo(Contar(bot, av, gravou))

\* the rest of the body of the loop, lines 246-311
AtualizarPlanilha ==
    /\ bot.pc = "atualizar"
    /\ \E gravou \in BOOLEAN :
          Gravar(Avaliar(bot.resultado, bot.tem_analise, analise),
                 ExcecaoDaAtualizacao(bot, bot.resultado), gravou)
    /\ UNCHANGED <<varsAnalise, limpeza, provedor, chamadas, varsApi>>

NextBot ==
    \/ Executar
    \/ ProcessarProcesso
    \/ AnalisarPedido
    \/ Parse
    \/ AtribuirErro
    \/ AtribuirResumo
    \/ AnalisarRetorno
    \/ AtualizarPlanilha

SpecBot == InitBot /\ [][NextBot]_vars

(***************************************************************************)
(* Constructions of AnaliseIA side by side                                 *)
(***************************************************************************)
\* the number of call sites that construct an AnaliseIA
MaxChamadas == 3

\* the texts the call sites construct from
EntradasChamadas ==
    { Objeto(Q(<<"o", "k">>), Q(<<"u", "r">>), <<"n", "u", "l", "l">>, Q(<<"p", "r">>),
             <<SPACE>>, FALSE),
      Objeto(Q(<<"o", "?">>), Q(<<"u", "r">>), Ausente, Ausente, <<SPACE>>, TRUE),
      Cercar(<<>>, JSON_TAG, <<NEWLINE>>,
             Linhas(<<"a", "l", "g", "o">>, <<"u", "r">>, <<"5", " ", "d">>, <<"p", "r">>,
                    "title", <<COLON, SPACE>>, FALSE)),
      <<SPACE, "a", SPACE, "b">> }

\* the state of a call AnaliseIA(raw_response) after the defaults of lines
\* 91-97: self and the locals of _parse
ChamadaNova(raw_response) ==
    [self |-> Novo(raw_response), texto |-> <<>>, json_str |-> None, pc |-> "init"]

InitChamadas ==
    /\ AnaliseIdle
    /\ limpeza = LimpezaIdle
    /\ BotIdle
    /\ chamadas \in [1..MaxChamadas -> {ChamadaNova(x) : x \in EntradasChamadas}]
    /\ ApiIdle

\* TextoDaChamada for a cleaned text kept in one place for all the calls:
\* the call reads the raw text of a call that has not started yet
TextoCompartilhado(cs, c) ==
    IF \E d \in DOMAIN cs : d # c /\ cs[d].pc = "init"
    THEN Texto(cs[CHOOSE d \in DOMAIN cs : d # c /\ cs[d].pc = "init"].self.raw)
    ELSE Texto(cs[c].self.raw)

\* lines 105-116 in call c: the cleaned text of its own raw response
TextoDaChamada(cs, c) == Texto(cs[c].self.raw)

\* lines 105-116 in call c
ChamadaLimpar(c) ==
    /\ chamadas[c].pc = "init"
    /\ chamadas' = [chamadas EXCEPT ![c].texto = TextoDaChamada(chamadas, c),
                                    ![c].pc = "limpo"]
    /\ UNCHANGED <<varsAnalise, limpeza, varsBot, varsApi>>

\* line 117 in call c
ChamadaLocalizar(c) ==
    /\ chamadas[c].pc = "limpo"
    /\ chamadas' = [chamadas EXCEPT ![c].json_str = extrair_json(chamadas[c].texto),
                                    ![c].pc = "localizado"]
    /\ UNCHANGED <<varsAnalise, limpeza, varsBot, varsApi>>

\* lines 119-160 in call c: the tiers and the except clauses
ChamadaPopular(c) ==
    /\ chamadas[c].pc = "localizado"
    /\ chamadas' =
          [chamadas EXCEPT
              ![c].self = Except(ComJsonStr(chamadas[c].self, chamadas[c].texto,
                                            chamadas[c].json_str)).self,
              ![c].pc = "done"]
    /\ UNCHANGED <<varsAnalise, limpeza, varsBot, varsApi>>

NextChamadas ==
    \E c \in 1..MaxChamadas :
        ChamadaLimpar(c) \/ ChamadaLocalizar(c) \/ ChamadaPopular(c)

SpecChamadas == InitChamadas /\ [][NextChamadas]_vars

(***************************************************************************)
(* APIComunica.consultar_processo and the pacing of its requests           *)
(***************************************************************************)
\* the number of instances of APIComunica
MaxClientes == 2

\* the largest delay_entre_consultas, in ticks of the clock
MaxDelay == 2

\* the most ticks time.sleep and the statements around it take beyond the
\* time asked for
MaxAtraso == 1

\* the most requests sent
MaxPedidos == 3

\* the clock stops ticking between calls at this time
MaxRelogio == 6

InitApi ==
    /\ AnaliseIdle
    /\ limpeza = LimpezaIdle
    /\ BotIdle
    /\ ChamadasIdle
    /\ clientes \in [1..MaxClientes -> {ClienteNovo(d) : d \in 0..MaxDelay}]
    /\ relogio \in 0..(MaxDelay + 1)
    /\ pedidos = <<>>

\* time passes between two calls
Tick ==
    /\ relogio < MaxRelogio
    /\ relogio' = relogio + 1
    /\ UNCHANGED <<varsAnalise, limpeza, varsBot, chamadas, clientes, pedidos>>

\* the call returns from time.sleep at the time depois, records it and
\* sends its request
Enviar(c, depois) ==
    /\ relogio' = depois
    /\ clientes' = [clientes EXCEPT ![c] = Registrar(clientes[c], depois)]
    /\ pedidos' = Append(pedidos, [cliente |-> c, t |-> depois])

\* consultar_processo on client c, lines 225-228: _aguardar_rate_limit
\* reads the clock, sleeps for what is left of the delay, records the time,
\* and requests.get is called; atraso is the time taken beyond the sleep
ConsultarProcesso(c) ==
    /\ Len(pedidos) < MaxPedidos
    /\ \E atraso \in 0..MaxAtraso :
          Enviar(c, relogio + Espera(clientes[c], relogio) + atraso)
    /\ UNCHANGED <<varsAnalise, limpeza, varsBot, chamadas>>

NextApi == Tick \/ \E c \in 1..MaxClientes : ConsultarProcesso(c)

SpecApi == InitApi /\ [][NextApi]_vars

(***************************************************************************)
(* Properties of AnaliseIA                                                 *)
(***************************************************************************)
\* s holds the text p somewhere
Contem(s, p) == \E k \in 1..(Len(s) - Len(p) + 1) : StartsWithAt(s, p, k)

\* every character of s is white space
EmBranco(s) == \A k \in 1..Len(s) : IsSpace(s[k])

\* the constructor is over
Construido == pc = "done"

\* the four keys of the prompt
QuatroChaves == {K_resumo, K_situacao, K_prazo, K_proxima_acao}

\* raw is the source of a JSON object that has all four keys
ObjetoCompleto(s) ==
    loads(s).ok /\ \A key \in QuatroChaves : HasKey(loads(s).pares, key)

\* the pairs of the object read from s once every fence marker is deleted
\* from it
ParesSemCercas(s) == loads(Replace(s, FENCE, <<>>)).pares

\* the fields of self are the values of pares, situacao in upper case
CamposIguais(self, pares) ==
    /\ self.resumo = Get(pares, K_resumo, Str(<<>>))
    /\ IsStr(Get(pares, K_situacao, Str(NORMAL)))
    /\ self.situacao = Str(Upper(Get(pares, K_situacao, Str(NORMAL)).v))
    /\ self.prazo = Get(pares, K_prazo, None)
    /\ self.proxima_acao = Get(pares, K_proxima_acao, None)

\* C1 as stated: every valid JSON object with the four keys gives a
\* successful result without aviso or erro whose fields are the values of
\* the object, situacao in upper case
C1_ObjetoCompletoOriginal ==
    Construido /\ ObjetoCompleto(raw) =>
        /\ sucesso(analise)
        /\ analise.aviso = None
        /\ analise.erro = None
        /\ CamposIguais(analise, loads(raw).pares)

\* C1 as amended: for a valid JSON object with the four keys, read with its
\* fence markers deleted, whose resumo is not empty and whose situacao is a
\* string, the result is successful, without aviso or erro, and its fields
\* are the values read, situacao in upper case
C1_ObjetoCompleto ==
    (/\ Construido
     /\ ObjetoCompleto(raw)
     /\ Truthy(Get(ParesSemCercas(raw), K_resumo, Str(<<>>)))
     /\ IsStr(Get(ParesSemCercas(raw), K_situacao, Str(NORMAL))))
    =>
        /\ sucesso(analise)
        /\ analise.aviso = None
        /\ analise.erro = None
        /\ CamposIguais(analise, ParesSemCercas(raw))

\* a complete object with a lower-case situacao and a fence marker in its
\* resumo has been read
C1_Witness ==
    /\ Construido
    /\ ObjetoCompleto(raw)
    /\ Contem(raw, FENCE)
    /\ sucesso(analise)
    /\ analise.resumo = Str(<<"a", "b">>)
    /\ analise.situacao = Str(<<"U", "R">>)
    /\ analise.prazo = Str(<<"5", "d">>)

\* an exception other than the JSONDecodeError of a text that is not JSON
\* was raised while _parse ran
FalhaInesperada == \E k \in 1..Len(falhas) : falhas[k] # "JSONDecodeError"

\* C2: the constructor never raises, and an unexpected fault while
\* locating, parsing or extracting leaves erro set, resumo equal to the
\* generic failure phrase and aviso unset
C2_FalhaViraErro ==
    Construido =>
        /\ excecao = "None"
        /\ FalhaInesperada =>
              /\ analise.erro # None
              /\ analise.resumo = Str(ErroNaAnalise)
              /\ analise.aviso = None

\* C3: a constructed result that is not successful has erro set
C3_InsucessoTemErro ==
    Construido /\ ~sucesso(analise) => analise.erro # None

\* s without its k-th character
SemCaractere(s, k) == SubSeq(s, 1, k - 1) \o SubSeq(s, k + 1, Len(s))

\* the commas of s that, white space apart, a closing brace or bracket
\* follows and whose deletion leaves the source of a JSON object
VirgulasFinais(s) ==
    { k \in 1..Len(s) :
        /\ s[k] = COMMA
        /\ SkipWs(s, k + 1) <= Len(s)
        /\ s[SkipWs(s, k + 1)] \in {RBRACE, RBRACK}
        /\ loads(SemCaractere(s, k)).ok }

\* C4: a text that is a valid JSON object but for a trailing comma fails
\* the first parse, is repaired, and gives a successful result without
\* aviso whose fields are the values of the object without that comma,
\* situacao in upper case; stated for the objects whose resumo is not empty
\* and whose situacao is a string
C4_VirgulaFinalReparada ==
    Construido /\ ~loads(raw).ok =>
        \A k \in VirgulasFinais(raw) :
            (/\ Truthy(Get(loads(SemCaractere(raw, k)).pares, K_resumo, Str(<<>>)))
             /\ IsStr(Get(loads(SemCaractere(raw, k)).pares, K_situacao, Str(NORMAL))))
            =>
                /\ passos = <<"extrair_json", "loads", "reparar_json", "loads", "popular">>
                /\ sucesso(analise)
                /\ analise.aviso = None
                /\ CamposIguais(analise, loads(SemCaractere(raw, k)).pares)

\* the lines of s
RECURSIVE LinhasDe(_)
LinhasDe(s) ==
    IF ~Contem(s, <<NEWLINE>>) THEN <<s>>
    ELSE <<SubSeq(s, 1, Find(s, <<NEWLINE>>) - 1)>>
            \o LinhasDe(From(s, Find(s, <<NEWLINE>>) + 1))

\* linha is the n-th label, in any letter case, and a colon
TemRotulo(linha, n) ==
    /\ Len(linha) > Len(Rotulos[n])
    /\ Lower(Prefix(linha, Len(Rotulos[n]))) = Rotulos[n]
    /\ linha[Len(Rotulos[n]) + 1] = COLON

\* the value of the line of s that has the n-th label: what follows the colon
ValorDe(s, n) ==
    LET l == CHOOSE l \in 1..Len(LinhasDe(s)) : TemRotulo(LinhasDe(s)[l], n)
    IN  From(LinhasDe(s)[l], Len(Rotulos[n]) + 2)

\* s has no opening brace and is made of four lines, one for each label,
\* whose values are not null tokens
QuatroLinhas(s) ==
    /\ ~Contem(s, <<LBRACE>>)
    /\ Len(LinhasDe(s)) = 4
    /\ \A n \in 1..4 : \E l \in 1..4 : TemRotulo(LinhasDe(s)[l], n)
    /\ \A n \in 1..4 : Lower(Strip(ValorDe(s, n))) \notin NullTokens

\* the ways a label is written in a text
Escritas ==
    {K_resumo, K_situacao, K_prazo, K_proxima_acao, K_proxima \o K_acao,
     K_proxima \o <<SPACE>> \o K_acao}

\* v holds a label that, white space apart, a colon or a dash follows
TemRotuloDentro(v) ==
    \E w \in Escritas : \E k \in 1..Len(v) :
        /\ k + Len(w) - 1 <= Len(v)
        /\ Lower(SubSeq(v, k, k + Len(w) - 1)) = w
        /\ SkipWs(v, k + Len(w)) <= Len(v)
        /\ v[SkipWs(v, k + Len(w))] \in {COLON, DASH}

\* the fields of self are the trimmed values of the four lines of s
CamposDasLinhas(self, s) ==
    /\ sucesso(self)
    /\ self.resumo = Str(Strip(ValorDe(s, 1)))
    /\ self.situacao = Str(Upper(Strip(ValorDe(s, 2))))
    /\ self.prazo = Str(Strip(ValorDe(s, 3)))
    /\ self.proxima_acao = Str(Strip(ValorDe(s, 4)))

\* C5 as stated: four labeled lines without an opening brace give a
\* successful result whose fields are the trimmed rests of the lines of
\* their labels, situacao in upper case
C5_QuatroLinhasOriginal ==
    Construido /\ QuatroLinhas(raw) => CamposDasLinhas(analise, raw)

\* the text with its fence markers deleted, trimmed
SemCercas(s) == Strip(Replace(Strip(s), FENCE, <<>>))

\* C5 as amended: when the text, its fence markers deleted, is four labeled
\* lines without an opening brace whose values are not blank, are not null
\* tokens and hold no label followed by a colon or a dash, the result is
\* successful and its fields are the trimmed rests of the lines of their
\* labels, situacao in upper case
C5_QuatroLinhas ==
    (/\ Construido
     /\ QuatroLinhas(SemCercas(raw))
     /\ \A n \in 1..4 :
            /\ ~EmBranco(ValorDe(SemCercas(raw), n))
            /\ ~TemRotuloDentro(ValorDe(SemCercas(raw), n)))
    => CamposDasLinhas(analise, SemCercas(raw))

\* four labeled lines in the reverse order have been read
C5_Witness ==
    /\ Construido
    /\ QuatroLinhas(raw)
    /\ TemRotulo(LinhasDe(raw)[1], 4)
    /\ Prefix(raw, 7) = <<"P", "r", "o", "x", "i", "m", "a">>
    /\ passos = <<"extrair_json", "extrair_campos_texto", "popular">>
    /\ analise.resumo = Str(<<"a", "l", "g", "o">>)
    /\ analise.situacao = Str(<<"O", "K">>)
    /\ analise.prazo = Str(<<"5", " ", "d">>)
    /\ analise.proxima_acao = Str(<<"p", "r">>)

\* the character the loop of the locator is about to read
ScanCh == scan.texto[scan.i]

\* one iteration of the loop changes the depth only on a brace outside a
\* string, and leaves the string only on a quote that no backslash escapes
PassoDoScan ==
    scan.pc = "loop" /\ scan'.pc = "loop" =>
        /\ scan.em_string => scan'.profundidade = scan.profundidade
        /\ scan'.profundidade # scan.profundidade =>
              ~scan.em_string /\ ScanCh \in {LBRACE, RBRACE}
        /\ scan.em_string /\ scan.escape => scan'.em_string
        /\ scan.em_string /\ ~scan'.em_string => ScanCh = QUOTE /\ ~scan.escape

\* the span returned for the source of a JSON object is the whole object
SpanInteiro ==
    scan.pc = "done" /\ scan.texto # <<>> /\ scan.texto[1] = LBRACE
        /\ loads(scan.texto).ok
    => scan.retorno = Str(scan.texto)

\* C6: in the scan of the locator a brace inside a string never changes the
\* depth and an escaped quote never closes the string, so the span returned
\* for a valid JSON object is the whole object, whatever braces and escaped
\* quotes its strings hold
C6_ChavesEmStrings == [][PassoDoScan]_vars /\ [](SpanInteiro)

\* the object whose resumo holds an escaped quote and a brace has been
\* returned whole
C6_Witness ==
    /\ scan.pc = "done"
    /\ loads(scan.texto).ok
    /\ Contem(scan.texto, <<BACKSLASH, QUOTE, LBRACE>>)
    /\ scan.retorno = Str(scan.texto)

\* the place of the first fence marker of s
PrimeiraCerca(s) == Find(s, FENCE)

\* what is before the first fence marker of s
ProsaDe(s) == Prefix(s, PrimeiraCerca(s) - 1)

\* what is between the json tag of the first fence marker of s and the
\* fence marker at its end, trimmed
CorpoDe(s) ==
    Strip(SubSeq(s, PrimeiraCerca(s) + 3 + Len(JSON_TAG), Len(s) - 3))

\* s is the source of a JSON object in a json fence, prose before it or not
ObjetoCercado(s) ==
    /\ PrimeiraCerca(s) # 0
    /\ Len(s) >= PrimeiraCerca(s) + 3 + Len(JSON_TAG) + 3
    /\ Lower(SubSeq(s, PrimeiraCerca(s) + 3, PrimeiraCerca(s) + 2 + Len(JSON_TAG)))
          = JSON_TAG
    /\ EndsWith(s, FENCE)
    /\ CorpoDe(s) # <<>>
    /\ CorpoDe(s)[1] = LBRACE
    /\ loads(CorpoDe(s)).ok

\* the fields and the success of self and of other are the same
MesmoResultado(self, other) ==
    /\ self.resumo = other.resumo
    /\ self.situacao = other.situacao
    /\ self.prazo = other.prazo
    /\ self.proxima_acao = other.proxima_acao
    /\ self.erro = other.erro
    /\ self.aviso = other.aviso
    /\ sucesso(self) = sucesso(other)

SemJsonSemRotulos ==
    passos = <<"extrair_json", "extrair_campos_texto", "texto">>

\* the fields of the fallback other than resumo
CamposDoTexto(self) ==
    /\ sucesso(self)
    /\ self.aviso = AvisoSemJson
    /\ self.erro = None
    /\ self.situacao = Str(NORMAL)
    /\ self.prazo = None
    /\ self.proxima_acao = None

\* C8 as stated: a text that is not blank, in which no JSON span is located
\* and no label is matched, gives a successful result with aviso, without
\* erro, prazo and proxima_acao, with situacao NORMAL and with the first 200
\* characters of the trimmed input as resumo
C8_TextoTruncadoOriginal ==
    Construido /\ ~EmBranco(raw) /\ SemJsonSemRotulos =>
        /\ CamposDoTexto(analise)
        /\ analise.resumo = Str(Prefix(Strip(raw), ResumoMax))

\* C8 as amended: such a text gives a successful result with aviso, without
\* erro, prazo and proxima_acao, with situacao NORMAL, and its resumo is the
\* first 200 characters of the cleaned text (the trimmed input without its
\* fence markers), or the sentinel when the cleaned text is empty; for an
\* input without fence markers that is the first 200 characters of the
\* trimmed input
C8_TextoTruncado ==
    Construido /\ ~EmBranco(raw) /\ SemJsonSemRotulos =>
        /\ CamposDoTexto(analise)
        /\ analise.resumo = IF Texto(raw) = <<>> THEN Str(NaoFoiPossivel)
                            ELSE Str(Prefix(Texto(raw), ResumoMax))
        /\ Len(analise.resumo.v) <= ResumoMax
        /\ ~Contem(raw, FENCE) => analise.resumo = Str(Prefix(Strip(raw), ResumoMax))

\* prose longer than a summary, after white space, has been cut
C8_Witness ==
    /\ Construido
    /\ SemJsonSemRotulos
    /\ Len(Strip(raw)) > ResumoMax
    /\ Len(raw) > Len(Strip(raw))
    /\ ~Contem(raw, FENCE)
    /\ Len(analise.resumo.v) = ResumoMax

\* the backticks of s come in runs of three or a multiple of three
CercasInteiras(s) ==
    \A a \in 1..Len(s) : \A b \in a..Len(s) :
        (/\ \A k \in a..b : s[k] = BACKTICK
         /\ a = 1 \/ s[a - 1] # BACKTICK
         /\ b = Len(s) \/ s[b + 1] # BACKTICK)
        => (b - a + 1) % 3 = 0

\* s holds nothing but white space and fence markers
SoCercas(s) ==
    /\ \A k \in 1..Len(s) : IsSpace(s[k]) \/ s[k] = BACKTICK
    /\ CercasInteiras(s)

\* s holds nothing but white space and fence markers, the first of which
\* may have the json tag
Vazio(s) ==
    \/ SoCercas(s)
    \/ /\ StartsWith(Strip(s), FENCE)
       /\ Len(Strip(s)) >= 3 + Len(JSON_TAG)
       /\ Lower(SubSeq(Strip(s), 4, 3 + Len(JSON_TAG))) = JSON_TAG
       /\ SoCercas(From(Strip(s), 4 + Len(JSON_TAG)))

\* C9: an input that is empty, or holds nothing but white space and fence
\* markers, gives the sentinel as resumo, with aviso, without erro, and is
\* successful
C9_EntradaVazia ==
    Construido /\ Vazio(raw) =>
        /\ analise.resumo = Str(NaoFoiPossivel)
        /\ analise.aviso = AvisoSemJson
        /\ analise.erro = None
        /\ sucesso(analise)

\* two fence markers with white space between them have been read
C9_Witness ==
    /\ Construido
    /\ Vazio(raw)
    /\ Len(raw) > 6
    /\ Contem(raw, <<BACKTICK, NEWLINE>>)
    /\ analise.resumo = Str(NaoFoiPossivel)

\* C10: the situacao of every result, whichever tier or handler made it, is
\* a string that is its own upper-case form
C10_SituacaoMaiuscula ==
    /\ IsStr(analise.situacao)
    /\ Upper(analise.situacao.v) = analise.situacao.v

\* a situacao written in lower case in a labeled line has been read
C10_Witness ==
    /\ Construido
    /\ passos = <<"extrair_json", "extrair_campos_texto", "popular">>
    /\ Contem(raw, <<":", " ", "u", "r">>)
    /\ analise.situacao = Str(<<"U", "R">>)
    /\ analise.resumo = Str(<<>>)


\* ---- C11 ----

\* the tier that ended the cascade
UltimoPasso == IF passos = <<>> THEN "" ELSE passos[Len(passos)]

\* the summary came from the repaired text: the first parse failed, the
\* repaired one was read and populated the fields
RecuperadoDoReparo ==
    /\ Construido
    /\ passos = <<"extrair_json", "loads", "reparar_json", "loads", "popular">>
    /\ falhas = <<"JSONDecodeError">>
    /\ Truthy(analise.resumo)

\* the summary came from labeled lines: no span was found and the fields
\* were populated from the lines
RecuperadoDosCampos ==
    /\ Construido
    /\ passos = <<"extrair_json", "extrair_campos_texto", "popular">>
    /\ falhas = <<>>
    /\ Truthy(analise.resumo)

\* the summary is a truncation: of the cleaned text (lines 137-140) or of
\* the raw response (lines 154-156)
RecuperadoPorTruncamento ==
    Construido /\ UltimoPasso \in {"texto", "raw"}

\* C11 as stated: a summary recovered below the direct parse (repaired
\* JSON, labeled lines or truncation) comes with aviso set, erro absent and
\* sucesso true
C11_AvisoAbaixoDoJsonOriginal ==
    (RecuperadoDoReparo \/ RecuperadoDosCampos \/ RecuperadoPorTruncamento)
        => /\ analise.aviso # None
           /\ analise.erro = None
           /\ sucesso(analise)

\* C11: a summary recovered by truncation comes with aviso set, erro absent
\* and sucesso true; one recovered from repaired JSON or from labeled lines
\* comes with aviso absent, erro absent and sucesso true
C11_AvisoAbaixoDoJson ==
    /\ RecuperadoPorTruncamento
           => /\ analise.aviso \in {AvisoSemJson, AvisoJsonInvalido}
              /\ analise.erro = None
              /\ sucesso(analise)
    /\ (RecuperadoDoReparo \/ RecuperadoDosCampos)
           => /\ analise.aviso = None
              /\ analise.erro = None
              /\ sucesso(analise)

\* a trailing comma was repaired and the summary was read from the repaired
\* object, with no warning
C11_Witness ==
    /\ RecuperadoDoReparo
    /\ Contem(raw, <<COMMA, RBRACE>>)
    /\ analise.aviso = None
    /\ sucesso(analise)


\* ---- C17 ----

\* the cleaned text holds a span that json.loads reads
SpanQueParse ==
    /\ Truthy(extrair_json(Texto(raw)))
    /\ loads(extrair_json(Texto(raw)).v).ok

\* the pairs of the object of that span
ParesDoSpan == loads(extrair_json(Texto(raw)).v).pares

\* the cleaned text holds a labeled line outside the span
RotuloForaDoSpan ==
    LET texto == Texto(raw)
        fora == SubSeq(texto, 1, Find(texto, <<LBRACE>>) - 1)
                    \o <<NEWLINE>>
                    \o From(texto, Find(texto, <<LBRACE>>)
                                       + Len(extrair_json(texto).v))
    IN  extrair_campos_texto(fora).found

\* the sequences of tiers that respect the order JSON parse, repaired JSON,
\* plain-text fields, truncation
OrdensDosTiers ==
    { <<"extrair_json", "loads", "popular">>,
      <<"extrair_json", "loads", "reparar_json", "loads", "popular">>,
      <<"extrair_json", "loads", "reparar_json", "loads", "raw">>,
      <<"extrair_json", "loads", "reparar_json", "raw">>,
      <<"extrair_json", "extrair_campos_texto", "popular">>,
      <<"extrair_json", "extrair_campos_texto", "texto">> }

\* only the direct parse ran
SoJsonDireto == passos = <<"extrair_json", "loads", "popular">>

\* C17 as stated: the tiers run in the fixed order, and a located span that
\* parses gives the fields of its object, with no repair, no labeled-line
\* extraction and no truncation, whatever labeled lines the text holds
C17_PrimeiroTierDecideOriginal ==
    Construido =>
        /\ passos \in OrdensDosTiers
        /\ SpanQueParse =>
              /\ SoJsonDireto
              /\ CamposIguais(analise, ParesDoSpan)

\* C17: the tiers run in the fixed order, and a located span that parses
\* is the only tier that runs, whatever labeled lines the text holds: the
\* fields are those of its object, or, when populating from it raises, the
\* result is the failure result with erro set
C17_PrimeiroTierDecide ==
    Construido =>
        /\ passos \in OrdensDosTiers
        /\ SpanQueParse =>
              /\ SoJsonDireto
              /\ analise.aviso = None
              /\ (falhas = <<>>) =>
                    /\ CamposIguais(analise, ParesDoSpan)
                    /\ analise.erro = None
              /\ (falhas # <<>>) =>
                    /\ falhas = <<"AttributeError">>
                    /\ analise.erro = ErroDe("AttributeError")
                    /\ analise.resumo = Str(ErroNaAnalise)

\* a valid object between two labeled lines was read: the fields are the
\* object's, not the lines'
C17_Witness ==
    /\ Construido
    /\ SpanQueParse
    /\ RotuloForaDoSpan
    /\ StartsWith(raw, K_resumo \o <<COLON, SPACE, "x">>)
    /\ SoJsonDireto
    /\ analise.resumo = Str(<<"o", "k">>)
    /\ analise.situacao = Str(<<"U", "R">>)


\* ---- C18 ----

\* a span was located, json.loads refused it, and the single repaired retry
\* gave nothing that json.loads reads
ReparoFalhou ==
    /\ Construido
    /\ \/ /\ passos = <<"extrair_json", "loads", "reparar_json", "loads", "raw">>
          /\ falhas = <<"JSONDecodeError", "JSONDecodeError">>
       \/ /\ passos = <<"extrair_json", "loads", "reparar_json", "raw">>
          /\ falhas = <<"JSONDecodeError">>

\* the tier p ran
Rodou(p) == \E k \in 1..Len(passos) : passos[k] = p

\* C18: when a span is located and both the first parse and the repaired
\* retry fail, the labeled-line extractor runs on the cleaned text before
\* any truncation, and the labeled fields of the text are the result
C18_CamposAposReparoFalho ==
    ReparoFalhou =>
        /\ Rodou("extrair_campos_texto")
        /\ extrair_campos_texto(Texto(raw)).found =>
              /\ UltimoPasso # "raw"
              /\ analise.resumo
                     = Get(extrair_campos_texto(Texto(raw)).pares, K_resumo, Str(<<>>))


\* ---- C19 ----

\* no span was located, the labeled-line extractor recovered a field, and
\* no summary is among the fields it recovered
CamposSemResumo ==
    /\ Construido
    /\ ~Truthy(extrair_json(Texto(raw)))
    /\ extrair_campos_texto(Texto(raw)).found
    /\ ~Truthy(Get(extrair_campos_texto(Texto(raw)).pares, K_resumo, Str(<<>>)))

\* C19: labeled fields without a summary are demoted to the truncation
\* fallback: resumo is the first 200 characters of the cleaned text, aviso
\* is set and sucesso is true
C19_SemResumoViraTruncamento ==
    CamposSemResumo =>
        /\ analise.resumo = Str(Prefix(Texto(raw), ResumoMax))
        /\ analise.aviso # None
        /\ sucesso(analise)


\* ---- C20 ----

\* the index of the first opening brace of the text under scan, 0 for none
PrimeiraChave == Find(scan.texto, <<LBRACE>>)

\* how many times ch stands in s[a..b]
Conta(s, ch, a, b) == Cardinality({ k \in a..b : s[k] = ch })

\* in a text without quotes: the depth after the character at k, counted
\* from the first opening brace
Saldo(k) ==
    Conta(scan.texto, LBRACE, PrimeiraChave, k)
        - Conta(scan.texto, RBRACE, PrimeiraChave, k)

\* in a text without quotes: the positions where the depth is zero again
Zeros == { k \in PrimeiraChave..Len(scan.texto) : Saldo(k) = 0 }

\* the depth is never negative, and it is zero inside the loop only before
\* the first character and at the brace that ends the scan
ProfundidadeNoScan ==
    scan.pc \in {"loop", "done"} /\ PrimeiraChave # 0 =>
        /\ scan.profundidade >= 0
        /\ scan.inicio = PrimeiraChave
        /\ (scan.pc = "loop" /\ ~scan.achou /\ scan.i > scan.inicio)
               => scan.profundidade >= 1
        /\ scan.achou =>
               /\ scan.profundidade = 0
               /\ scan.texto[scan.i] = RBRACE

\* what the locator returns: not-found without an opening brace or when the
\* scan ended with the depth above zero, else the text from the first
\* opening brace to the brace where the depth came back to zero
RetornoDoScan ==
    scan.pc = "done" =>
        /\ PrimeiraChave = 0 => scan.retorno = None
        /\ (PrimeiraChave # 0 /\ ~scan.achou) =>
               /\ scan.retorno = None
               /\ scan.i = Len(scan.texto) + 1
               /\ scan.profundidade >= 1
        /\ (PrimeiraChave # 0 /\ scan.achou) =>
               scan.retorno = Str(SubSeq(scan.texto, PrimeiraChave, scan.i))
        /\ scan.retorno = extrair_json(scan.texto)

\* in a text without quotes the brace that ends the span is the first
\* position where the opening and closing braces balance
PrimeiroZero ==
    scan.pc = "done" /\ PrimeiraChave # 0 /\ ~Contem(scan.texto, <<QUOTE>>) =>
        IF Zeros = {} THEN scan.retorno = None
        ELSE /\ scan.achou
             /\ scan.i \in Zeros
             /\ \A k \in Zeros : scan.i <= k

\* C20: _extrair_json returns not-found when the text has no opening brace
\* or the depth never comes back to zero, else exactly the text from the
\* first opening brace through the first closing brace at which the depth
\* is zero again; the depth is never negative during the scan
C20_SpanDoLocalizador ==
    ProfundidadeNoScan /\ RetornoDoScan /\ PrimeiroZero

\* the span of a nested object that stands after a letter was returned: it
\* ends at the second closing brace
C20_Witness ==
    /\ scan.pc = "done"
    /\ scan.texto = <<"a", LBRACE, LBRACE, RBRACE, RBRACE>>
    /\ scan.retorno = Str(<<LBRACE, LBRACE, RBRACE, RBRACE>>)
    /\ scan.profundidade = 0


\* ---- C14 ----

\* the stripped text of the summary under cleaning
TextoBruto == Strip(limpeza.resumo.v)

\* the wrapper cleanup of lines 82-92 applies: the summary is a text that
\* starts with an opening brace or holds the word resumo, and is not a JSON
\* object with the key resumo
AplicaInvolucro ==
    /\ IsStr(limpeza.resumo)
    /\ limpeza.resumo.v # <<>>
    /\ StartsWith(TextoBruto, <<LBRACE>>) \/ Contem(Lower(TextoBruto), K_resumo)
    /\ ~(loads(TextoBruto).ok /\ HasKey(loads(TextoBruto).pares, K_resumo))

\* the sibling-field words of the claim
PalavrasIrmas == {K_situacao, K_prazo, K_proxima_acao}

\* s holds one of the sibling-field words, in any letter case
TemPalavraIrma(s) == \E w \in PalavrasIrmas : Contem(Lower(s), w)

\* C14: where the wrapper cleanup applies, the summary is cut at the
\* earliest occurrence of a sibling-field word in any letter case, so the
\* summary returned holds none of situacao, prazo, proxima_acao
C14_CortaNaPrimeiraIrma ==
    limpeza.pc = "done" /\ AplicaInvolucro =>
        /\ limpeza.exc = "None"
        /\ ~TemPalavraIrma(limpeza.retorno)


\* ---- C12 ----

\* between two states where the object is constructed and no new object is
\* being constructed, its fields are the same
ObjetoNaoMuda == (pc = "done" /\ pc' = "done") => analise' = analise

\* C12: once an AnaliseIA is constructed, no later step of the program, of
\* analisar or of the loop of the bot, changes any of its fields
C12_NaoMudaAposConstruir == [][ObjetoNaoMuda]_vars

\* ---- C15 ----

\* C15: in test mode executar never calls sheets.atualizar_processo,
\* whatever the queries and the analyses of the run give
C15_ModoTesteNaoGrava == bot.modo_teste => planilha = <<>>

\* a run in test mode is over: two processes were handled, one of them with
\* an analysis that succeeded, and nothing was written
C15_Witness ==
    /\ bot.modo_teste
    /\ bot.pc = "fim"
    /\ bot.total = 2
    /\ bot.sucesso = 2
    /\ sucesso(analise)
    /\ pc = "done"
    /\ planilha = <<>>


\* ---- C13 ----

\* the six fields of an object
Campos(self) ==
    <<self.resumo, self.situacao, self.prazo, self.proxima_acao, self.erro,
      self.aviso>>

\* the calls that are over
Prontas == { c \in DOMAIN chamadas : chamadas[c].pc = "done" }

PedidosDe(c) == { k \in 1..Len(pedidos) : pedidos[k].cliente = c }

\* any two requests of one client are at least its delay apart, and the
\* client's _ultimo_request is the time of its last request
Espacados ==
    \A c \in DOMAIN clientes :
        /\ \A i \in PedidosDe(c), j \in PedidosDe(c) :
              i < j => pedidos[j].t - pedidos[i].t >= clientes[c].delay
        /\ \A i \in PedidosDe(c) :
              (\A j \in PedidosDe(c) : j <= i)
                  => clientes[c]._ultimo_request = pedidos[i].t
        /\ PedidosDe(c) = {} => clientes[c]._ultimo_request = 0

\* a request of one client leaves the pacing state of every other client
\* as it was
SoOProprio ==
    Len(pedidos') = Len(pedidos) + 1 =>
        \A d \in DOMAIN clientes :
            d # pedidos'[Len(pedidos')].cliente => clientes'[d] = clientes[d]

\* C16: two successive consultar_processo calls of one APIComunica send
\* their requests at least delay apart, the time of the call is recorded in
\* that instance's own _ultimo_request, and the pacing state of any other
\* instance is not touched
C16_PedidosEspacados == [](Espacados) /\ [][SoOProprio]_vars

\* client 1 sent a request, client 2 sent one less than client 1's delay
\* later, and client 1 waited its whole delay before its second request
C16_Witness ==
    /\ Len(pedidos) = 3
    /\ pedidos[1].cliente = 1
    /\ pedidos[2].cliente = 2
    /\ pedidos[3].cliente = 1
    /\ clientes[1].delay = 2
    /\ pedidos[2].t - pedidos[1].t < clientes[1].delay
    /\ pedidos[3].t = pedidos[1].t + clientes[1].delay
    /\ clientes[2]._ultimo_request = pedidos[2].t



\* ---- C21 ----

\* the spans of s that are the source of a JSON object: <<p, q>> for the
\* span from the opening brace at p to the closing brace at q
ObjetosEm(s) ==
    { pq \in (1..Len(s)) \X (1..Len(s)) :
        /\ pq[1] < pq[2]
        /\ s[pq[1]] = LBRACE
        /\ s[pq[2]] = RBRACE
        /\ loads(SubSeq(s, pq[1], pq[2])).ok }

\* the first of them: the one that starts first
PrimeiroObjetoEm(s) ==
    CHOOSE pq \in ObjetosEm(s) : \A other \in ObjetosEm(s) : pq[1] <= other[1]

\* C21: when the text holds a complete JSON object, whatever prose with
\* braces or quotes stands before or after it, the locator returns the span
\* of the first complete object
C21_PrimeiroObjetoCompleto ==
    scan.pc = "done" /\ ObjetosEm(scan.texto) # {} =>
        scan.retorno = Str(SubSeq(scan.texto, PrimeiroObjetoEm(scan.texto)[1],
                                  PrimeiroObjetoEm(scan.texto)[2]))



\* ---- C22 ----

\* C22: the cleaning at the head of _parse (the trims and the removal of the
\* fence markers) is idempotent: cleaning the cleaned text gives it back
C22_LimpezaIdempotente ==
    Construido => Texto(Texto(raw)) = Texto(raw)

\* a response in a json fence was cleaned to the object inside it, and
\* cleaning that object again leaves it as it is
C22_Witness ==
    /\ Construido
    /\ StartsWith(raw, FENCE \o JSON_TAG)
    /\ EndsWith(raw, FENCE)
    /\ Texto(raw) # <<>>
    /\ Len(Texto(raw)) < Len(raw) - 9
    /\ ~Contem(Texto(raw), FENCE)
    /\ Texto(Texto(raw)) = Texto(raw)



\* ---- C23 ----

\* C23 as stated: when the located span parses as a JSON object, each field
\* is the value of its key (situacao in upper case) or its default (resumo
\* "", situacao NORMAL, prazo and proxima_acao absent), and the result is
\* successful and has no aviso, whatever subset of the four keys is present
C23_PopulacaoDoJsonOriginal ==
    Construido /\ SpanQueParse =>
        /\ CamposIguais(analise, ParesDoSpan)
        /\ sucesso(analise)
        /\ analise.aviso = None

\* C23 as amended: when the located span parses as a JSON object whose
\* situacao, if present, is a string, each field is the value of its key
\* (situacao in upper case) or its default, and the result has no aviso and
\* no erro, whatever subset of the four keys is present; it is successful
\* exactly when the resumo it took is not empty
C23_PopulacaoDoJson ==
    (/\ Construido
     /\ SpanQueParse
     /\ IsStr(Get(ParesDoSpan, K_situacao, Str(NORMAL))))
    =>
        /\ CamposIguais(analise, ParesDoSpan)
        /\ analise.aviso = None
        /\ analise.erro = None
        /\ sucesso(analise) <=> Truthy(Get(ParesDoSpan, K_resumo, Str(<<>>)))

\* an object with the keys resumo and prazo alone was read: situacao and
\* proxima_acao kept their defaults
C23_Witness ==
    /\ Construido
    /\ SpanQueParse
    /\ HasKey(ParesDoSpan, K_resumo)
    /\ HasKey(ParesDoSpan, K_prazo)
    /\ ~HasKey(ParesDoSpan, K_situacao)
    /\ ~HasKey(ParesDoSpan, K_proxima_acao)
    /\ analise.resumo = Str(<<"o", "k">>)
    /\ analise.situacao = Str(NORMAL)
    /\ analise.prazo = Str(<<"5", "d">>)
    /\ analise.proxima_acao = None
    /\ analise.aviso = None
    /\ sucesso(analise)



\* ---- C24 ----

\* linha is a label, a colon and a value
LinhaDeRotulo(linha) == \E n \in 1..4 : TemRotulo(linha, n)

\* linha is a label, a colon and a null token in any letter case
LinhaNula(linha) ==
    \E n \in 1..4 :
        /\ TemRotulo(linha, n)
        /\ Lower(Strip(From(linha, Len(Rotulos[n]) + 2))) \in NullTokens

LinhaNaoNula(linha) == ~LinhaNula(linha)

\* s without its lines whose value is a null token
SemLinhasNulas(s) == Juntar(SelectSeq(LinhasDe(s), LinhaNaoNula), <<NEWLINE>>)

\* s is made of labeled lines, one of them with a null token as its value,
\* and has no opening brace
LinhasComNulo(s) ==
    /\ ~Contem(s, <<LBRACE>>)
    /\ \A l \in 1..Len(LinhasDe(s)) : LinhaDeRotulo(LinhasDe(s)[l])
    /\ \E l \in 1..Len(LinhasDe(s)) : LinhaNula(LinhasDe(s)[l])

\* C24: in the plain-text tier a label whose value is null, nenhum, n/a or
\* nao in any letter case counts as absent: the result is the one the text
\* without the line of that label gives, for each of the four labels, and
\* it has no erro
C24_TokenNuloComoAusente ==
    Construido /\ LinhasComNulo(raw) =>
        /\ MesmoResultado(analise, AnaliseIA(SemLinhasNulas(raw)).self)
        /\ analise.erro = None



\* ---- C25 ----

\* the labels that match somewhere in s: their places in Chaves
RotulosAchados(s) == { n \in 1..Len(Chaves) : Search(s, Chaves[n]) # None }

\* the plain-text extractor was called
CamposRodou == Len(passos) >= 2 /\ passos[2] = "extrair_campos_texto"

\* the keys of the fields the extractor returned
ChavesDe(pares) == { pares[k].k : k \in 1..Len(pares) }

\* C25: the plain-text extractor reports no match, and the cascade goes on
\* to the truncation, only when none of the four labels matches in the
\* text; when some labels match it returns the fields of those labels and
\* no other, and the fields of the result are their values, the others
\* keeping their defaults
C25_SemRotuloViraTruncamento ==
    Construido /\ CamposRodou =>
        /\ (UltimoPasso = "texto") <=> (RotulosAchados(Texto(raw)) = {})
        /\ RotulosAchados(Texto(raw)) # {} =>
              /\ extrair_campos_texto(Texto(raw)).found
              /\ ChavesDe(extrair_campos_texto(Texto(raw)).pares)
                     = { Chaves[n] : n \in RotulosAchados(Texto(raw)) }
              /\ CamposIguais(analise, extrair_campos_texto(Texto(raw)).pares)



\* ---- C26 ----

\* the analysis of the process exists and its sucesso is true
AnaliseComSucesso == bot.tem_analise /\ sucesso(analise)

\* what is to be written for a process with publications: the situacao and
\* the cleaned resumo of a successful analysis, else ATUALIZADO and nothing
EscritaEsperada ==
    [processo |-> bot.i,
     status |-> IF AnaliseComSucesso THEN analise.situacao ELSE Str(ATUALIZADO),
     resumo_ia |-> IF AnaliseComSucesso THEN limpar_resumo_planilha(analise.resumo).val
                   ELSE <<>>]

\* the body of the loop ends for a process whose query gave publications,
\* outside the test mode
GravaComPublicacoes ==
    /\ bot.pc = "atualizar"
    /\ bot'.pc # "atualizar"
    /\ bot.resultado = "publicacoes"
    /\ ~bot.modo_teste

\* for such a process the update handed to the spreadsheet is the expected
\* one
PersisteAnalise == GravaComPublicacoes => planilha' = Append(planilha, EscritaEsperada)

\* C26: for a process whose query succeeded with publications, executar
\* writes the situacao of the analysis as status and its cleaned resumo as
\* summary exactly when the analysis exists and its sucesso is true, and
\* writes ATUALIZADO with an empty summary otherwise
C26_PersisteAnaliseBoa == [][PersisteAnalise]_vars



\* ---- C27 ----

\* the character at k is a comma that, white space apart, a closing brace or
\* bracket follows
VirgulaAntesDeFecho(s, k) ==
    /\ s[k] = COMMA
    /\ SkipWs(s, k + 1) <= Len(s)
    /\ s[SkipWs(s, k + 1)] \in {RBRACE, RBRACK}

\* the places of s the repairer may drop: those commas, and the white space
\* between one of them and its closing brace or bracket
Descartaveis(s) ==
    { k \in 1..Len(s) :
        \E c \in 1..k : VirgulaAntesDeFecho(s, c) /\ k < SkipWs(s, c + 1) }

\* the characters of s at the places of the set ks, in order
Restantes(s, ks) ==
    [ i \in 1..Cardinality(ks) |->
        s[CHOOSE k \in ks : Cardinality({ j \in ks : j <= k }) = i] ]

\* the text the repairer hands to the locator at line 226
TextoReparado == SubVirgulaFinal(NormalizarAspas(Texto(raw)))

\* C27: the repairer changes only smart quotes and the commas that, white
\* space apart, a closing brace or bracket follows: every other character
\* of the cleaned text, the punctuation inside the strings too, is in the
\* repaired text handed to the locator (the inputs hold no smart quote)
C27_ReparoPreservaOResto ==
    Construido /\ Rodou("reparar_json") =>
        TextoReparado
            = Restantes(Texto(raw), (1..Len(Texto(raw))) \ Descartaveis(Texto(raw)))



\* ---- C28 ----

\* C28: once the constructor is over, aviso set implies erro absent and a
\* resumo that is not empty, so sucesso is true; aviso comes only with a
\* summary of the truncation tier; erro and aviso are never both set
C28_AvisoSoComResumo ==
    Construido =>
        /\ analise.aviso # None =>
              /\ analise.erro = None
              /\ Truthy(analise.resumo)
              /\ sucesso(analise)
              /\ RecuperadoPorTruncamento
        /\ ~(analise.erro # None /\ analise.aviso # None)

\* the repaired object raised while it was being read (its situacao is
\* null): the constructor fell back to the raw response, with aviso set and
\* erro absent
C28_Witness ==
    /\ Construido
    /\ falhas = <<"JSONDecodeError", "AttributeError">>
    /\ analise.aviso = AvisoJsonInvalido
    /\ analise.erro = None
    /\ analise.resumo = Str(raw)
    /\ sucesso(analise)



\* ---- C29 ----

\* the query of the process selected no last publication: ultima is still
\* the None of line 246 (total = 0, or total > 0 with an empty list)
SemUltima == bot.resultado \in {"sem_publicacoes", "zero_com_itens", "inconsistente"}

\* the body of the loop ends for such a process by going on to the next
\* process, or to the end of the loop after the last one: no exception
\* leaves executar
SegueSemUltima ==
    (bot.pc = "atualizar" /\ bot'.pc # "atualizar" /\ SemUltima) =>
        /\ bot'.pc \in {"laco", "fim"}
        /\ bot'.exc = "None"

\* C29: executar never reads the last publication when none was selected,
\* a result with total = 0 and a list that is not empty included: building
\* the update raises nothing and the loop goes on to the next process
C29_UltimaSoQuandoSelecionada == [][SegueSemUltima]_vars



\* ---- C30 ----

\* the loop of executar is over: lines 313-320 report the counters
FimDoLaco == bot.pc = "fim"

\* every process was counted once, as a success or as an error
ContadosUmaVez == FimDoLaco => bot.sucesso + bot.erros = bot.total

\* one process adds at most one to erros
UmErroPorProcesso == bot'.erros <= bot.erros + 1

\* C30: at the end of executar sucesso + erros = total, whatever query
\* failures, empty results, inconsistent results and failed updates of the
\* spreadsheet there were, and no process increments erros twice
C30_CadaProcessoContadoUmaVez == [](ContadosUmaVez) /\ [][UmErroPorProcesso]_vars

=============================================================================
